---- MODULE Spec2Model ----
(***************************************************************************)
(* Model of app/utils/code_analyzer.py (class CodeAnalyzer): the language  *)
(* signature registry, detect_language, parse_code with its per-language   *)
(* line classifiers, _check_for_issues and analyze_complexity.             *)
(*                                                                         *)
(* Text is a sequence of one-character strings; the str methods and the    *)
(* re patterns the code uses are operators over such sequences.            *)
(***************************************************************************)
EXTENDS Integers, Sequences, FiniteSets, TLC

(***************************************************************************)
(* Characters and the str methods used by the code.                        *)
(***************************************************************************)
LowerSeq == <<"a","b","c","d","e","f","g","h","i","j","k","l","m","n","o","p","q","r","s","t","u","v","w","x","y","z">>
UpperSeq == <<"A","B","C","D","E","F","G","H","I","J","K","L","M","N","O","P","Q","R","S","T","U","V","W","X","Y","Z">>
LowerSet == {LowerSeq[k] : k \in DOMAIN LowerSeq}
UpperSet == {UpperSeq[k] : k \in DOMAIN UpperSeq}
DigitSet == {"0","1","2","3","4","5","6","7","8","9"}
\* str.strip() and \s: the whitespace characters
SpaceSet == {" ", "\t", "\n", "\r", "\f"}
\* \w and the two sides of \b
WordSet == LowerSet \cup UpperSet \cup DigitSet \cup {"_"}
\* [a-zA-Z0-9_]
AlnumU == WordSet

\* the other case of a letter (re.IGNORECASE), or the character itself
SwapCase(c) ==
    IF c \in LowerSet THEN UpperSeq[CHOOSE k \in DOMAIN LowerSeq : LowerSeq[k] = c]
    ELSE IF c \in UpperSet THEN LowerSeq[CHOOSE k \in DOMAIN UpperSeq : UpperSeq[k] = c]
    ELSE c

\* `v` evaluated once and given to Op (a local variable of the code)
With(v, Op(_)) == CHOOSE r \in {Op(y) : y \in {v}} : TRUE

\* s[i:] starts with p  (1-based i)
PrefixAt(s, i, p) ==
    /\ i + Len(p) - 1 <= Len(s)
    /\ \A k \in 1..Len(p) : s[i + k - 1] = p[k]

\* str.startswith / str.endswith
startswith(s, p) == PrefixAt(s, 1, p)
endswith(s, p) == Len(p) <= Len(s) /\ PrefixAt(s, Len(s) - Len(p) + 1, p)

\* p in s
Contains(s, p) == \E i \in 1..(Len(s) + 1) : PrefixAt(s, i, p)

\* str.count(p) for a non-empty p: non-overlapping occurrences, left to right
\* (occ: the positions at which p occurs; n: the length of p)
RECURSIVE CountFrom(_, _, _)
CountFrom(occ, n, i) ==
    With({j \in occ : j >= i}, LAMBDA later :
        IF later = {} THEN 0
        ELSE 1 + CountFrom(occ, n, (CHOOSE j \in later : \A k \in later : j <= k) + n))
count(s, p) ==
    With({i \in 1..(Len(s) - Len(p) + 1) : s[i] = p[1] /\ PrefixAt(s, i, p)}, LAMBDA occ :
        IF occ = {} THEN 0 ELSE CountFrom(occ, Len(p), 1))

\* s[a:b] with 1-based inclusive a and exclusive b
Slice(s, a, b) == IF b <= a THEN << >> ELSE SubSeq(s, a, b - 1)

\* str.split(sep) for a one-character separator: always at least one piece
RECURSIVE SplitFrom(_, _, _, _)
SplitFrom(s, sep, start, i) ==
    IF i > Len(s) THEN << Slice(s, start, i) >>
    ELSE IF s[i] = sep THEN << Slice(s, start, i) >> \o SplitFrom(s, sep, i + 1, i + 1)
    ELSE SplitFrom(s, sep, start, i + 1)
split(s, sep) == SplitFrom(s, sep, 1, 1)

\* str.strip(): drop leading and trailing whitespace
RECURSIVE FirstNonSpace(_, _)
FirstNonSpace(s, i) ==
    IF i > Len(s) THEN i ELSE IF s[i] \in SpaceSet THEN FirstNonSpace(s, i + 1) ELSE i
RECURSIVE LastNonSpace(_, _)
LastNonSpace(s, i) ==
    IF i < 1 THEN i ELSE IF s[i] \in SpaceSet THEN LastNonSpace(s, i - 1) ELSE i
strip(s) == Slice(s, FirstNonSpace(s, 1), LastNonSpace(s, Len(s)) + 1)

\* "\n".join(lines)
RECURSIVE join(_)
join(ls) ==
    IF Len(ls) = 0 THEN << >>
    ELSE IF Len(ls) = 1 THEN ls[1]
    ELSE ls[1] \o <<"\n">> \o join(Tail(ls))

(***************************************************************************)
(* The re module, as far as the patterns of the code need it: a            *)
(* backtracking matcher over pattern trees.  A pattern is a record with a  *)
(* tag t; alternatives and greedy repetition are tried in re's order, so   *)
(* the first success is the match re reports.                              *)
(***************************************************************************)
In(S)       == [t |-> "in", s |-> S]                 \* [abc], a literal character
NotIn(S)    == [t |-> "notin", s |-> S]              \* [^abc]
Dot         == NotIn({"\n"})                         \* .
Cat(rs)     == [t |-> "cat", rs |-> rs]              \* r1 r2 ...
Alt(rs)     == [t |-> "alt", rs |-> rs]              \* r1|r2|...
Star(r)     == [t |-> "star", r |-> r]               \* r*
LazyStar(r) == [t |-> "lazystar", r |-> r]           \* r*? (r a character class)
Eps         == Cat(<< >>)
Opt(r)      == Alt(<<r, Eps>>)                       \* r?
Plus(r)     == Cat(<<r, Star(r)>>)                   \* r+
Grp(n, r)   == [t |-> "grp", n |-> n, r |-> r]       \* capturing group number n
Eol         == [t |-> "eol"]                         \* $
WordB       == [t |-> "wordb"]                       \* \b
Bol         == [t |-> "bol"]                         \* ^ (no re.MULTILINE)
\* a literal string; with re.IGNORECASE each letter in either case
Lit(cs)     == [t |-> "lit", cs |-> cs]
LitI(cs)    == [t |-> "liti", cs |-> cs, sw |-> [k \in DOMAIN cs |-> SwapCase(cs[k])]]
WS          == In(SpaceSet)                          \* \s
Word        == In(WordSet)                           \* \w

\* the highest group number of any pattern of the code
NGroups == 4
NoGroups == [n \in 1..NGroups |-> <<0, 0>>]
NoMatch == [ok |-> FALSE, from |-> 0, to |-> 0, g |-> NoGroups]

IsWordAt(s, i) == i >= 1 /\ i <= Len(s) /\ s[i] \in WordSet

\* one character against a character class
Takes(r, c) == IF r.t = "in" THEN c \in r.s ELSE c \notin r.s
IsClass(r) == r.t \in {"in", "notin"}
\* where the run of characters of class r that starts at i ends
RunEnd(r, s, i) ==
    CHOOSE j \in i..(Len(s) + 1) :
        /\ \A k \in i..(j - 1) : Takes(r, s[k])
        /\ (j = Len(s) + 1 \/ ~Takes(r, s[j]))

\* attempts are pairs <<position, outcome of the match from there>>
Ok(attempts) == {a \in attempts : a[2].ok}
First(attempts) == CHOOSE a \in attempts : \A b \in attempts : a[1] <= b[1]
Last(attempts) == CHOOSE a \in attempts : \A b \in attempts : b[1] <= a[1]

\* The characters a match of the patterns of `stack`, in sequence, can begin
\* with; `any` when every character can, or when the match can be empty.
AnyChar == [any |-> TRUE, cs |-> {}]
FirstUnion(S) == [any |-> \E f \in S : f.any, cs |-> UNION {f.cs : f \in S}]
RECURSIVE FirstOf(_)
FirstOf(stack) ==
    IF Len(stack) = 0 THEN AnyChar
    ELSE
    LET r == stack[1]
        rest == Tail(stack)
    IN  CASE r.t = "in" -> [any |-> FALSE, cs |-> r.s]
          [] r.t = "notin" -> AnyChar
          [] r.t = "lit" ->
               IF Len(r.cs) = 0 THEN FirstOf(rest) ELSE [any |-> FALSE, cs |-> {r.cs[1]}]
          [] r.t = "liti" ->
               IF Len(r.cs) = 0 THEN FirstOf(rest)
               ELSE [any |-> FALSE, cs |-> {r.cs[1], r.sw[1]}]
          [] r.t = "cat" -> FirstOf(r.rs \o rest)
          [] r.t = "alt" -> FirstUnion({FirstOf(<<r.rs[k]>> \o rest) : k \in DOMAIN r.rs})
          [] r.t \in {"star", "lazystar"} -> FirstUnion({FirstOf(<<r.r>>), FirstOf(rest)})
          [] r.t = "grp" -> FirstOf(<<r.r>> \o rest)
          [] r.t \in {"eol", "bol", "wordb", "endgrp"} -> FirstOf(rest)
          [] r.t = "again" -> FirstOf(<<r.star>> \o rest)

\* the positions j of S at which a match of the patterns of `stack` can begin
CanBegin(stack, s, S) ==
    With(FirstOf(stack), LAMBDA first :
        {j \in S : j > Len(s) \/ first.any \/ s[j] \in first.cs})

\* Match the patterns of `stack`, in sequence, at position i of s.
RECURSIVE Run(_, _, _, _)
RECURSIVE RunAlts(_, _, _, _, _, _)
RunAlts(rs, k, rest, s, i, g) ==
    IF k > Len(rs) THEN NoMatch
    ELSE With(Run(<<rs[k]>> \o rest, s, i, g),
              LAMBDA a : IF a.ok THEN a ELSE RunAlts(rs, k + 1, rest, s, i, g))
Run(stack, s, i, g) ==
    IF Len(stack) = 0 THEN [ok |-> TRUE, from |-> 0, to |-> i, g |-> g]
    ELSE
    LET r == stack[1]
        rest == Tail(stack)
    IN  CASE IsClass(r) ->
               IF i <= Len(s) /\ Takes(r, s[i]) THEN Run(rest, s, i + 1, g) ELSE NoMatch
          [] r.t = "lit" ->
               IF PrefixAt(s, i, r.cs) THEN Run(rest, s, i + Len(r.cs), g) ELSE NoMatch
          [] r.t = "liti" ->
               IF /\ i + Len(r.cs) - 1 <= Len(s)
                  /\ \A k \in 1..Len(r.cs) : s[i + k - 1] \in {r.cs[k], r.sw[k]}
               THEN Run(rest, s, i + Len(r.cs), g) ELSE NoMatch
          [] r.t = "cat" -> Run(r.rs \o rest, s, i, g)
          [] r.t = "alt" -> RunAlts(r.rs, 1, rest, s, i, g)
          [] r.t = "star" /\ IsClass(r.r) ->
               \* greedy: the longest run after which the rest matches
               With(Ok({<<j, Run(rest, s, j, g)>> : j \in CanBegin(rest, s, i..RunEnd(r.r, s, i))}),
                    LAMBDA good : IF good = {} THEN NoMatch ELSE Last(good)[2])
          [] r.t = "lazystar" /\ IsClass(r.r) ->
               \* lazy: the shortest run after which the rest matches
               With(Ok({<<j, Run(rest, s, j, g)>> : j \in CanBegin(rest, s, i..RunEnd(r.r, s, i))}),
                    LAMBDA good : IF good = {} THEN NoMatch ELSE First(good)[2])
          [] r.t = "star" /\ ~IsClass(r.r) ->
               With(Run(<<r.r, [t |-> "again", p |-> i, star |-> r]>> \o rest, s, i, g),
                    LAMBDA more : IF more.ok THEN more ELSE Run(rest, s, i, g))
          [] r.t = "again" ->
               \* an iteration that consumed nothing is not repeated
               IF i > r.p THEN Run(<<r.star>> \o rest, s, i, g) ELSE NoMatch
          [] r.t = "grp" ->
               Run(<<r.r, [t |-> "endgrp", n |-> r.n, p |-> i]>> \o rest, s, i, g)
          [] r.t = "endgrp" ->
               Run(rest, s, i, [g EXCEPT ![r.n] = <<r.p, i>>])
          [] r.t = "eol" ->
               IF i = Len(s) + 1 \/ (i = Len(s) /\ s[i] = "\n")
               THEN Run(rest, s, i, g) ELSE NoMatch
          [] r.t = "bol" -> IF i = 1 THEN Run(rest, s, i, g) ELSE NoMatch
          [] r.t = "wordb" ->
               IF IsWordAt(s, i - 1) # IsWordAt(s, i) THEN Run(rest, s, i, g) ELSE NoMatch

\* re.match(r, s): a match starting at the first character
re_match(r, s) ==
    With(Run(<<r>>, s, 1, NoGroups),
         LAMBDA m : IF m.ok THEN [m EXCEPT !.from = 1] ELSE NoMatch)

\* re.search(r, s), from position i on: the leftmost match; a position whose
\* character cannot begin a match is not tried
SearchFrom(r, s, i) ==
    With(Ok({<<j, Run(<<r>>, s, j, NoGroups)>> : j \in CanBegin(<<r>>, s, i..(Len(s) + 1))}),
         LAMBDA starts :
             IF starts = {} THEN NoMatch
             ELSE [First(starts)[2] EXCEPT !.from = First(starts)[1]])
re_search(r, s) == SearchFrom(r, s, 1)

\* re.finditer(r, s): the successive non-overlapping matches, left to right
\* (no pattern of the code matches the empty string)
RECURSIVE FindFrom(_, _, _)
FindFrom(r, s, i) ==
    With(SearchFrom(r, s, i),
         LAMBDA m : IF ~m.ok THEN << >>
                    ELSE <<m>> \o FindFrom(r, s, IF m.to > m.from THEN m.to ELSE m.to + 1))
re_finditer(r, s) == FindFrom(r, s, 1)

\* match.group(n): the text of group n, << >> when the group took no part
\* (the code reads such a group only through `or ""` / `if ... else ""`)
group(m, s, n) == IF m.g[n][1] = 0 THEN << >> ELSE Slice(s, m.g[n][1], m.g[n][2])


(***************************************************************************)
(* The patterns of the line classifiers (_parse_python ... _parse_go).     *)
(***************************************************************************)
Ident   == In(AlnumU)                                \* [a-zA-Z0-9_]
IdentD  == In(AlnumU \cup {"$"})                     \* [a-zA-Z0-9_$]
Chr(c)  == In({c})

\* r"def\s+([a-zA-Z0-9_]+)\s*\((.*)\):"
py_func_re == Cat(<<Lit(<<"d","e","f">>), Plus(WS), Grp(1, Plus(Ident)), Star(WS),
                    Chr("("), Grp(2, Star(Dot)), Chr(")"), Chr(":")>>)
\* r"class\s+([a-zA-Z0-9_]+)(?:\((.*)\))?:"
py_class_re == Cat(<<Lit(<<"c","l","a","s","s">>), Plus(WS), Grp(1, Plus(Ident)),
                     Opt(Cat(<<Chr("("), Grp(2, Star(Dot)), Chr(")")>>)), Chr(":")>>)
\* r"([a-zA-Z0-9_]+)\s*="
py_var_re == Cat(<<Grp(1, Plus(Ident)), Star(WS), Chr("=")>>)

\* r"function\s+([a-zA-Z0-9_$]+)\s*\((.*)\)"
js_func_re == Cat(<<Lit(<<"f","u","n","c","t","i","o","n">>), Plus(WS), Grp(1, Plus(IdentD)), Star(WS),
                    Chr("("), Grp(2, Star(Dot)), Chr(")")>>)
\* r"(const|let|var)\s+([a-zA-Z0-9_$]+)\s*=\s*(?:\((.*)\)|([a-zA-Z0-9_$]+))\s*=>"
js_arrow_re == Cat(<<Grp(1, Alt(<<Lit(<<"c","o","n","s","t">>), Lit(<<"l","e","t">>), Lit(<<"v","a","r">>)>>)), Plus(WS),
                     Grp(2, Plus(IdentD)), Star(WS), Chr("="), Star(WS),
                     Alt(<<Cat(<<Chr("("), Grp(3, Star(Dot)), Chr(")")>>),
                           Grp(4, Plus(IdentD))>>),
                     Star(WS), Lit(<<"=",">">>)>>)
\* r"class\s+([a-zA-Z0-9_$]+)(?:\s+extends\s+([a-zA-Z0-9_$.]+))?"
js_class_re == Cat(<<Lit(<<"c","l","a","s","s">>), Plus(WS), Grp(1, Plus(IdentD)),
                     Opt(Cat(<<Plus(WS), Lit(<<"e","x","t","e","n","d","s">>), Plus(WS),
                               Grp(2, Plus(In(AlnumU \cup {"$", "."})))>>))>>)
\* r"(?:const|let|var)\s+([a-zA-Z0-9_$]+)\s*="
js_var_re == Cat(<<Alt(<<Lit(<<"c","o","n","s","t">>), Lit(<<"l","e","t">>), Lit(<<"v","a","r">>)>>), Plus(WS),
                   Grp(1, Plus(IdentD)), Star(WS), Chr("=")>>)

\* (?:public|private|protected)?
AccessOpt == Opt(Alt(<<Lit(<<"p","u","b","l","i","c">>), Lit(<<"p","r","i","v","a","t","e">>), Lit(<<"p","r","o","t","e","c","t","e","d">>)>>))
\* r"(?:public|private|protected)?\s+(?:static\s+)?(?:[a-zA-Z0-9_<>]+)\s+([a-zA-Z0-9_]+)\s*\((.*)\)"
java_method_re == Cat(<<AccessOpt, Plus(WS), Opt(Cat(<<Lit(<<"s","t","a","t","i","c">>), Plus(WS)>>)),
                        Plus(In(AlnumU \cup {"<", ">"})), Plus(WS), Grp(1, Plus(Ident)),
                        Star(WS), Chr("("), Grp(2, Star(Dot)), Chr(")")>>)
\* r"(?:public|private|protected)?\s+class\s+([a-zA-Z0-9_]+)(?:\s+extends\s+([a-zA-Z0-9_]+))?(?:\s+implements\s+([a-zA-Z0-9_, ]+))?"
java_class_re == Cat(<<AccessOpt, Plus(WS), Lit(<<"c","l","a","s","s">>), Plus(WS), Grp(1, Plus(Ident)),
                       Opt(Cat(<<Plus(WS), Lit(<<"e","x","t","e","n","d","s">>), Plus(WS), Grp(2, Plus(Ident))>>)),
                       Opt(Cat(<<Plus(WS), Lit(<<"i","m","p","l","e","m","e","n","t","s">>), Plus(WS),
                                 Grp(3, Plus(In(AlnumU \cup {",", " "})))>>))>>)
\* r"(?:private|public|protected)?\s+(?:final\s+)?([a-zA-Z0-9_<>]+)\s+([a-zA-Z0-9_]+)\s*="
java_var_re == Cat(<<Opt(Alt(<<Lit(<<"p","r","i","v","a","t","e">>), Lit(<<"p","u","b","l","i","c">>), Lit(<<"p","r","o","t","e","c","t","e","d">>)>>)),
                     Plus(WS), Opt(Cat(<<Lit(<<"f","i","n","a","l">>), Plus(WS)>>)),
                     Grp(1, Plus(In(AlnumU \cup {"<", ">"}))), Plus(WS),
                     Grp(2, Plus(Ident)), Star(WS), Chr("=")>>)

\* r"(?:[a-zA-Z0-9_*]+\s+)+([a-zA-Z0-9_]+)\s*\((.*)\)\s*(?:const)?\s*(?:{|$)"
c_func_re == Cat(<<Plus(Cat(<<Plus(In(AlnumU \cup {"*"})), Plus(WS)>>)),
                   Grp(1, Plus(Ident)), Star(WS), Chr("("), Grp(2, Star(Dot)), Chr(")"),
                   Star(WS), Opt(Lit(<<"c","o","n","s","t">>)), Star(WS), Alt(<<Chr("{"), Eol>>)>>)
\* r"(?:class|struct)\s+([a-zA-Z0-9_]+)(?:\s*:\s*(?:public|private|protected)?\s*([a-zA-Z0-9_]+))?"
c_class_re == Cat(<<Alt(<<Lit(<<"c","l","a","s","s">>), Lit(<<"s","t","r","u","c","t">>)>>), Plus(WS), Grp(1, Plus(Ident)),
                    Opt(Cat(<<Star(WS), Chr(":"), Star(WS), AccessOpt, Star(WS),
                              Grp(2, Plus(Ident))>>))>>)
\* r"(?:static\s+)?(?:const\s+)?([a-zA-Z0-9_*]+)\s+([a-zA-Z0-9_]+)(?:\s*=|;|\[)"
c_var_re == Cat(<<Opt(Cat(<<Lit(<<"s","t","a","t","i","c">>), Plus(WS)>>)), Opt(Cat(<<Lit(<<"c","o","n","s","t">>), Plus(WS)>>)),
                  Grp(1, Plus(In(AlnumU \cup {"*"}))), Plus(WS), Grp(2, Plus(Ident)),
                  Alt(<<Cat(<<Star(WS), Chr("=")>>), Chr(";"), Chr("[")>>)>>)

\* r"func\s+(?:\([^)]+\)\s+)?([a-zA-Z0-9_]+)\s*\((.*)\)"
go_func_re == Cat(<<Lit(<<"f","u","n","c">>), Plus(WS),
                    Opt(Cat(<<Chr("("), Plus(NotIn({")"})), Chr(")"), Plus(WS)>>)),
                    Grp(1, Plus(Ident)), Star(WS), Chr("("), Grp(2, Star(Dot)), Chr(")")>>)
\* r"type\s+([a-zA-Z0-9_]+)\s+struct"
go_struct_re == Cat(<<Lit(<<"t","y","p","e">>), Plus(WS), Grp(1, Plus(Ident)), Plus(WS), Lit(<<"s","t","r","u","c","t">>)>>)
\* r"([a-zA-Z0-9_]+)\s*:="
go_short_re == Cat(<<Grp(1, Plus(Ident)), Star(WS), Lit(<<":","=">>)>>)
\* r"var\s+([a-zA-Z0-9_]+)\s+([a-zA-Z0-9_]+)(?:\s*=)?"
go_var_re == Cat(<<Lit(<<"v","a","r">>), Plus(WS), Grp(1, Plus(Ident)), Plus(WS), Grp(2, Plus(Ident)),
                   Opt(Cat(<<Star(WS), Chr("=")>>))>>)

(***************************************************************************)
(* The patterns of _check_for_issues and analyze_complexity.               *)
(***************************************************************************)
\* r"(?:TODO|FIXME|XXX|BUG|HACK)" with re.IGNORECASE
todo_pattern == Alt(<<LitI(<<"T","O","D","O">>), LitI(<<"F","I","X","M","E">>), LitI(<<"X","X","X">>), LitI(<<"B","U","G">>), LitI(<<"H","A","C","K">>)>>)
\* \s*=\s*['\"]([^'\"]+)['\"]
QuotedAssign == Cat(<<Star(WS), Chr("="), Star(WS), In({"'", "\""}),
                      Grp(1, Plus(NotIn({"'", "\""}))), In({"'", "\""})>>)
\* the four credential patterns, each with re.IGNORECASE
credential_patterns ==
    << Cat(<<LitI(<<"p","a","s","s","w","o","r","d">>), QuotedAssign>>),
       Cat(<<LitI(<<"a","p","i">>), Opt(In({"_", "-"})), LitI(<<"k","e","y">>), QuotedAssign>>),
       Cat(<<LitI(<<"s","e","c","r","e","t">>), QuotedAssign>>),
       Cat(<<LitI(<<"t","o","k","e","n">>), QuotedAssign>>) >>
\* r"except\s*:"
bare_except_re == Cat(<<Lit(<<"e","x","c","e","p","t">>), Star(WS), Chr(":")>>)
\* r"def\s+\w+\s*\(.*?=\s*(?:\[\]|{}|\{\}|\(\)).*?\):"
mutable_default_re ==
    Cat(<<Lit(<<"d","e","f">>), Plus(WS), Plus(Word), Star(WS), Chr("("), LazyStar(Dot), Chr("="),
          Star(WS), Alt(<<Lit(<<"[","]">>), Lit(<<"{","}">>), Lit(<<"{","}">>), Lit(<<"(",")">>)>>),
          LazyStar(Dot), Chr(")"), Chr(":")>>)
\* r"console\.log\("
console_log_re == Lit(<<"c","o","n","s","o","l","e",".","l","o","g","(">>)
\* r"[^=]=[^=]"
loose_equals_re == Cat(<<NotIn({"="}), Chr("="), NotIn({"="})>>)
\* r"[<>!=]="
comparison_re == Cat(<<In({"<", ">", "!", "="}), Chr("=")>>)
\* r"^(\s*)[^\s]"
indent_pattern == Cat(<<Bol, Grp(1, Star(WS)), NotIn(SpaceSet)>>)

\* \bword\b
WholeWord(cs) == Cat(<<WordB, Lit(cs), WordB>>)

(***************************************************************************)
(* CodeAnalyzer.__init__: the language signature registry, in the order of *)
(* the dict display (dicts keep insertion order).  A comment value is a    *)
(* string literal or, for json, the name `null`.                           *)
(***************************************************************************)
StrLit(cs) == [k |-> "str", v |-> cs]
NameRef(n) == [k |-> "name", v |-> n]

language_patterns_display ==
  <<
    \* python: 'def ' 'class ' 'import ' 'from ' 'if ' 'for ' 'while ' 'try:' 'except:' 'with '
    [lang |-> "python",
     extensions |-> <<".py", ".pyx", ".pyw">>,
     keywords |-> <<<<"d","e","f"," ">>, <<"c","l","a","s","s"," ">>, <<"i","m","p","o","r","t"," ">>, <<"f","r","o","m"," ">>, <<"i","f"," ">>, <<"f","o","r"," ">>, <<"w","h","i","l","e"," ">>, <<"t","r","y",":">>, <<"e","x","c","e","p","t",":">>, <<"w","i","t","h"," ">>>>,
     comment |-> StrLit(<<"#">>)],
    \* javascript: 'function' 'const ' 'let ' 'var ' 'import ' 'export ' 'class ' '=>' 'if(' 'for('
    [lang |-> "javascript",
     extensions |-> <<".js", ".jsx", ".ts", ".tsx">>,
     keywords |-> <<<<"f","u","n","c","t","i","o","n">>, <<"c","o","n","s","t"," ">>, <<"l","e","t"," ">>, <<"v","a","r"," ">>, <<"i","m","p","o","r","t"," ">>, <<"e","x","p","o","r","t"," ">>, <<"c","l","a","s","s"," ">>, <<"=",">">>, <<"i","f","(">>, <<"f","o","r","(">>>>,
     comment |-> StrLit(<<"/","/">>)],
    \* java: 'public ' 'private ' 'class ' 'void ' 'static ' 'import ' 'extends ' 'implements '
    [lang |-> "java",
     extensions |-> <<".java">>,
     keywords |-> <<<<"p","u","b","l","i","c"," ">>, <<"p","r","i","v","a","t","e"," ">>, <<"c","l","a","s","s"," ">>, <<"v","o","i","d"," ">>, <<"s","t","a","t","i","c"," ">>, <<"i","m","p","o","r","t"," ">>, <<"e","x","t","e","n","d","s"," ">>, <<"i","m","p","l","e","m","e","n","t","s"," ">>>>,
     comment |-> StrLit(<<"/","/">>)],
    \* c: 'int ' 'void ' 'struct ' 'char ' 'return ' 'include ' 'define ' 'typedef '
    [lang |-> "c",
     extensions |-> <<".c", ".h">>,
     keywords |-> <<<<"i","n","t"," ">>, <<"v","o","i","d"," ">>, <<"s","t","r","u","c","t"," ">>, <<"c","h","a","r"," ">>, <<"r","e","t","u","r","n"," ">>, <<"i","n","c","l","u","d","e"," ">>, <<"d","e","f","i","n","e"," ">>, <<"t","y","p","e","d","e","f"," ">>>>,
     comment |-> StrLit(<<"/","/">>)],
    \* cpp: 'class ' 'namespace ' 'template ' 'std::' 'cout ' 'cin ' 'vector<'
    [lang |-> "cpp",
     extensions |-> <<".cpp", ".hpp", ".cc", ".hh">>,
     keywords |-> <<<<"c","l","a","s","s"," ">>, <<"n","a","m","e","s","p","a","c","e"," ">>, <<"t","e","m","p","l","a","t","e"," ">>, <<"s","t","d",":",":">>, <<"c","o","u","t"," ">>, <<"c","i","n"," ">>, <<"v","e","c","t","o","r","<">>>>,
     comment |-> StrLit(<<"/","/">>)],
    \* csharp: 'using ' 'namespace ' 'class ' 'public ' 'private ' 'void ' 'static '
    [lang |-> "csharp",
     extensions |-> <<".cs">>,
     keywords |-> <<<<"u","s","i","n","g"," ">>, <<"n","a","m","e","s","p","a","c","e"," ">>, <<"c","l","a","s","s"," ">>, <<"p","u","b","l","i","c"," ">>, <<"p","r","i","v","a","t","e"," ">>, <<"v","o","i","d"," ">>, <<"s","t","a","t","i","c"," ">>>>,
     comment |-> StrLit(<<"/","/">>)],
    \* ruby: 'def ' 'class ' 'module ' 'require ' 'include ' 'attr_' 'end'
    [lang |-> "ruby",
     extensions |-> <<".rb">>,
     keywords |-> <<<<"d","e","f"," ">>, <<"c","l","a","s","s"," ">>, <<"m","o","d","u","l","e"," ">>, <<"r","e","q","u","i","r","e"," ">>, <<"i","n","c","l","u","d","e"," ">>, <<"a","t","t","r","_">>, <<"e","n","d">>>>,
     comment |-> StrLit(<<"#">>)],
    \* go: 'func ' 'package ' 'import ' 'type ' 'struct ' 'interface ' 'go '
    [lang |-> "go",
     extensions |-> <<".go">>,
     keywords |-> <<<<"f","u","n","c"," ">>, <<"p","a","c","k","a","g","e"," ">>, <<"i","m","p","o","r","t"," ">>, <<"t","y","p","e"," ">>, <<"s","t","r","u","c","t"," ">>, <<"i","n","t","e","r","f","a","c","e"," ">>, <<"g","o"," ">>>>,
     comment |-> StrLit(<<"/","/">>)],
    \* php: '<?php' 'function ' 'class ' 'public ' 'private ' 'echo ' '$'
    [lang |-> "php",
     extensions |-> <<".php">>,
     keywords |-> <<<<"<","?","p","h","p">>, <<"f","u","n","c","t","i","o","n"," ">>, <<"c","l","a","s","s"," ">>, <<"p","u","b","l","i","c"," ">>, <<"p","r","i","v","a","t","e"," ">>, <<"e","c","h","o"," ">>, <<"$">>>>,
     comment |-> StrLit(<<"/","/">>)],
    \* swift: 'func ' 'class ' 'struct ' 'var ' 'let ' 'guard ' 'import '
    [lang |-> "swift",
     extensions |-> <<".swift">>,
     keywords |-> <<<<"f","u","n","c"," ">>, <<"c","l","a","s","s"," ">>, <<"s","t","r","u","c","t"," ">>, <<"v","a","r"," ">>, <<"l","e","t"," ">>, <<"g","u","a","r","d"," ">>, <<"i","m","p","o","r","t"," ">>>>,
     comment |-> StrLit(<<"/","/">>)],
    \* rust: 'fn ' 'struct ' 'impl ' 'pub ' 'let ' 'mut ' 'use ' 'mod '
    [lang |-> "rust",
     extensions |-> <<".rs">>,
     keywords |-> <<<<"f","n"," ">>, <<"s","t","r","u","c","t"," ">>, <<"i","m","p","l"," ">>, <<"p","u","b"," ">>, <<"l","e","t"," ">>, <<"m","u","t"," ">>, <<"u","s","e"," ">>, <<"m","o","d"," ">>>>,
     comment |-> StrLit(<<"/","/">>)],
    \* kotlin: 'fun ' 'class ' 'val ' 'var ' 'import ' 'package ' 'override '
    [lang |-> "kotlin",
     extensions |-> <<".kt">>,
     keywords |-> <<<<"f","u","n"," ">>, <<"c","l","a","s","s"," ">>, <<"v","a","l"," ">>, <<"v","a","r"," ">>, <<"i","m","p","o","r","t"," ">>, <<"p","a","c","k","a","g","e"," ">>, <<"o","v","e","r","r","i","d","e"," ">>>>,
     comment |-> StrLit(<<"/","/">>)],
    \* html: '<!DOCTYPE' '<html' '<head' '<body' '<div' '<span' '<a ' '<img '
    [lang |-> "html",
     extensions |-> <<".html", ".htm">>,
     keywords |-> <<<<"<","!","D","O","C","T","Y","P","E">>, <<"<","h","t","m","l">>, <<"<","h","e","a","d">>, <<"<","b","o","d","y">>, <<"<","d","i","v">>, <<"<","s","p","a","n">>, <<"<","a"," ">>, <<"<","i","m","g"," ">>>>,
     comment |-> StrLit(<<"<","!","-","-">>)],
    \* css: '{' '}' 'margin:' 'padding:' 'color:' '@media' 'display:'
    [lang |-> "css",
     extensions |-> <<".css">>,
     keywords |-> <<<<"{">>, <<"}">>, <<"m","a","r","g","i","n",":">>, <<"p","a","d","d","i","n","g",":">>, <<"c","o","l","o","r",":">>, <<"@","m","e","d","i","a">>, <<"d","i","s","p","l","a","y",":">>>>,
     comment |-> StrLit(<<"/","*">>)],
    \* sql: 'SELECT ' 'FROM ' 'WHERE ' 'INSERT ' 'UPDATE ' 'DELETE ' 'CREATE TABLE'
    [lang |-> "sql",
     extensions |-> <<".sql">>,
     keywords |-> <<<<"S","E","L","E","C","T"," ">>, <<"F","R","O","M"," ">>, <<"W","H","E","R","E"," ">>, <<"I","N","S","E","R","T"," ">>, <<"U","P","D","A","T","E"," ">>, <<"D","E","L","E","T","E"," ">>, <<"C","R","E","A","T","E"," ","T","A","B","L","E">>>>,
     comment |-> StrLit(<<"-","-">>)],
    \* bash: '#!/bin/' 'function ' 'if [' 'for ' 'while ' 'echo ' 'export '
    [lang |-> "bash",
     extensions |-> <<".sh", ".bash">>,
     keywords |-> <<<<"#","!","/","b","i","n","/">>, <<"f","u","n","c","t","i","o","n"," ">>, <<"i","f"," ","[">>, <<"f","o","r"," ">>, <<"w","h","i","l","e"," ">>, <<"e","c","h","o"," ">>, <<"e","x","p","o","r","t"," ">>>>,
     comment |-> StrLit(<<"#">>)],
    \* powershell: 'function ' 'param(' '$' 'if(' 'foreach(' 'Write-Host'
    [lang |-> "powershell",
     extensions |-> <<".ps1">>,
     keywords |-> <<<<"f","u","n","c","t","i","o","n"," ">>, <<"p","a","r","a","m","(">>, <<"$">>, <<"i","f","(">>, <<"f","o","r","e","a","c","h","(">>, <<"W","r","i","t","e","-","H","o","s","t">>>>,
     comment |-> StrLit(<<"#">>)],
    \* yaml: '---' 'name:' 'version:' 'services:' 'environment:'
    [lang |-> "yaml",
     extensions |-> <<".yml", ".yaml">>,
     keywords |-> <<<<"-","-","-">>, <<"n","a","m","e",":">>, <<"v","e","r","s","i","o","n",":">>, <<"s","e","r","v","i","c","e","s",":">>, <<"e","n","v","i","r","o","n","m","e","n","t",":">>>>,
     comment |-> StrLit(<<"#">>)],
    \* json: '{' '}' '":' '[' ']'
    [lang |-> "json",
     extensions |-> <<".json">>,
     keywords |-> <<<<"{">>, <<"}">>, <<"\"",":">>, <<"[">>, <<"]">>>>,
     comment |-> NameRef("null")],
    \* dockerfile: 'FROM ' 'RUN ' 'CMD ' 'ENTRYPOINT ' 'COPY ' 'ADD ' 'ENV '
    [lang |-> "dockerfile",
     extensions |-> <<"Dockerfile">>,
     keywords |-> <<<<"F","R","O","M"," ">>, <<"R","U","N"," ">>, <<"C","M","D"," ">>, <<"E","N","T","R","Y","P","O","I","N","T"," ">>, <<"C","O","P","Y"," ">>, <<"A","D","D"," ">>, <<"E","N","V"," ">>>>,
     comment |-> StrLit(<<"#">>)]
  >>

\* the names bound where the display is evaluated: the imports and the class of
\* the module, and the constants of the language
BoundNames == {"re", "logging", "Dict", "List", "Any", "Optional", "Tuple",
               "CodeAnalyzer", "None", "True", "False"}
\* what evaluating the display raises: NameError at the first unbound name
init_outcome ==
    IF \E k \in DOMAIN language_patterns_display :
          /\ language_patterns_display[k].comment.k = "name"
          /\ language_patterns_display[k].comment.v \notin BoundNames
    THEN "NameError" ELSE "none"

\* the registered tags, in registration order
RegisteredTags(lp) == [k \in DOMAIN lp |-> lp[k].lang]
TagSet(lp) == {lp[k].lang : k \in DOMAIN lp}

\* a marker the code treats as absent: `comment_marker and ...` is false for
\* None and for the empty string
NoneMarker == NameRef("None")
Truthy(marker) == marker.k = "str" /\ Len(marker.v) > 0

\* the registry read without its "comment" entries
comment_marker_of_none(lp, language) == NoneMarker

\* self.language_patterns.get(language, {}).get("comment")
comment_marker_of(lp, language) ==
    IF \E k \in DOMAIN lp : lp[k].lang = language
    THEN With(lp[CHOOSE k \in DOMAIN lp : lp[k].lang = language].comment,
              LAMBDA comment : IF comment.k = "str" THEN comment ELSE NoneMarker)
    ELSE NoneMarker

(***************************************************************************)
(* detect_language                                                         *)
(***************************************************************************)
\* lines 124-133: the marker of the first line, "" when there is none
fast_path(code_content) ==
    With(IF Len(code_content) > 0 THEN split(code_content, "\n")[1] ELSE << >>,
         LAMBDA first_line :
        IF startswith(first_line, <<"#","!","/","b","i","n","/","b","a","s","h">>) \/ startswith(first_line, <<"#","!","/","b","i","n","/","s","h">>)
        THEN "bash"
        ELSE IF startswith(first_line, <<"#","!","/","u","s","r","/","b","i","n","/","e","n","v"," ","p","y","t","h","o","n">>) THEN "python"
        ELSE IF startswith(first_line, <<"#","!","/","u","s","r","/","b","i","n","/","e","n","v"," ","n","o","d","e">>) THEN "javascript"
        ELSE IF startswith(first_line, <<"<","?","p","h","p">>) THEN "php"
        ELSE "")

\* lines 140-141: 2 for every occurrence of every keyword
RECURSIVE keyword_score(_, _, _)
keyword_score(keywords, code_content, k) ==
    IF k > Len(keywords) THEN 0
    ELSE count(code_content, keywords[k]) * 2 + keyword_score(keywords, code_content, k + 1)

\* lines 144-151: the language-specific patterns
bonus_applies(lang, code_content) ==
    \/ lang = "python" /\ Contains(code_content, <<"d","e","f"," ">>) /\ Contains(code_content, <<":">>)
    \/ /\ lang = "javascript"
       /\ (Contains(code_content, <<"f","u","n","c","t","i","o","n">>) \/ Contains(code_content, <<"=",">">>))
       /\ Contains(code_content, <<";">>)
    \/ /\ lang = "html"
       /\ startswith(strip(code_content), <<"<">>)
       /\ Contains(code_content, <<">">>)
    \/ lang = "java" /\ Contains(code_content, <<"p","u","b","l","i","c"," ","c","l","a","s","s">>) /\ Contains(code_content, <<";">>)

\* the +5 of lines 145, 147, 149, 151
BonusPoints == 5

language_score(entry, code_content) ==
    keyword_score(entry.keywords, code_content, 1)
    + (IF bonus_applies(entry.lang, code_content) THEN BonusPoints ELSE 0)

\* language_scores, in registration order
language_scores(lp, code_content) ==
    [k \in DOMAIN lp |-> language_score(lp[k], code_content)]

\* max written as a loop that compares with >=: the last item with the highest
\* score
max_lang_last(scores) ==
    CHOOSE k \in DOMAIN scores :
        /\ \A j \in DOMAIN scores : scores[j] <= scores[k]
        /\ \A j \in (k + 1)..Len(scores) : scores[j] < scores[k]

\* max(language_scores.items(), key=...): the first item with the highest score
max_lang(scores) ==
    CHOOSE k \in DOMAIN scores :
        /\ \A j \in DOMAIN scores : scores[j] <= scores[k]
        /\ \A j \in 1..(k - 1) : scores[j] < scores[k]

\* detect_language with the scoring of lines 135-159 ahead of the marker test of
\* lines 124-133
detect_language_scoring_first(lp, code_content) ==
    With(language_scores(lp, code_content), LAMBDA scores :
        IF Len(lp) > 0 /\ scores[max_lang(scores)] > 0
        THEN lp[max_lang(scores)].lang
        ELSE With(fast_path(code_content), LAMBDA fast :
                 IF fast # "" THEN fast ELSE "unknown"))

\* detect_language without the test of line 158
detect_language_any_score(lp, code_content) ==
    With(fast_path(code_content), LAMBDA fast :
        IF fast # "" THEN fast
        ELSE With(language_scores(lp, code_content), LAMBDA scores :
            IF Len(lp) > 0 THEN lp[max_lang(scores)].lang ELSE "unknown"))

\* lines 124-159
detect_language(lp, code_content) ==
    With(fast_path(code_content), LAMBDA fast :
        IF fast # "" THEN fast
        ELSE With(language_scores(lp, code_content), LAMBDA scores :
            IF Len(lp) > 0
            THEN With(max_lang(scores), LAMBDA best :
                     IF scores[best] > 0 THEN lp[best].lang ELSE "unknown")
            ELSE "unknown"))

(***************************************************************************)
(* parse_code and the per-language line classifiers.  A classifier returns *)
(* the exception it raises ("none" when it returns) and the result dict.   *)
(***************************************************************************)
\* list.insert(0, entry) in place of list.append(entry)
Add_front(result, list, entry) == [result EXCEPT ![list] = <<entry>> \o @]
Add(result, list, entry) == [result EXCEPT ![list] = Append(@, entry)]
Returns(result) == [exc |-> "none", result |-> result]
Raises(exc, result) == [exc |-> exc, result |-> result]

\* line.split(sep, 1)[1]: the text after the first occurrence of sep
AfterFirst(line, sep) ==
    LET at == CHOOSE i \in 1..(Len(line) + 1) :
                  /\ PrefixAt(line, i, sep)
                  /\ \A j \in 1..(i - 1) : ~PrefixAt(line, j, sep)
    IN  Slice(line, at + Len(sep), Len(line) + 1)

\* str.rstrip(";")
RECURSIVE rstrip_semicolon(_)
rstrip_semicolon(s) ==
    IF Len(s) > 0 /\ s[Len(s)] = ";" THEN rstrip_semicolon(SubSeq(s, 1, Len(s) - 1)) ELSE s

\* _parse_python with groups 1 and 2 of the function pattern exchanged
_parse_python_swapped_groups(line, line_num, result) ==
    With(re_match(py_func_re, line), LAMBDA func_match :
        IF startswith(line, <<"d","e","f"," ">>) /\ func_match.ok
        THEN Returns(Add(result, "functions",
                 [name |-> group(func_match, line, 2),
                  params |-> group(func_match, line, 1),
                  line |-> line_num]))
        ELSE Returns(result))

_parse_python(line, line_num, result) ==
    IF startswith(line, <<"d","e","f"," ">>) THEN
        With(re_match(py_func_re, line), LAMBDA func_match :
            IF func_match.ok
            THEN Returns(Add(result, "functions",
                     [name |-> group(func_match, line, 1),
                      params |-> group(func_match, line, 2),
                      line |-> line_num]))
            ELSE Returns(result))
    ELSE IF startswith(line, <<"c","l","a","s","s"," ">>) THEN
        With(re_match(py_class_re, line), LAMBDA class_match :
            IF class_match.ok
            THEN Returns(Add(result, "classes",
                     [name |-> group(class_match, line, 1),
                      inherits |-> group(class_match, line, 2),
                      line |-> line_num]))
            ELSE Returns(result))
    ELSE IF startswith(line, <<"i","m","p","o","r","t"," ">>) \/ startswith(line, <<"f","r","o","m"," ">>) THEN
        Returns(Add(result, "imports", [statement |-> line, line |-> line_num]))
    ELSE IF /\ Contains(line, <<"=">>)
            /\ ~(startswith(line, <<"i","f"," ">>) \/ startswith(line, <<"e","l","i","f"," ">>) \/ startswith(line, <<"w","h","i","l","e"," ">>))
    THEN
        With(re_match(py_var_re, line), LAMBDA var_match :
            IF var_match.ok
            THEN Returns(Add(result, "variables",
                     [name |-> group(var_match, line, 1),
                      line |-> line_num,
                      value |-> strip(AfterFirst(line, <<"=">>))]))
            ELSE Returns(result))
    ELSE Returns(result)

_parse_javascript(line, line_num, result) ==
    IF Contains(line, <<"f","u","n","c","t","i","o","n"," ">>) THEN
        With(re_search(js_func_re, line), LAMBDA func_match :
            IF func_match.ok
            THEN Returns(Add(result, "functions",
                     [name |-> group(func_match, line, 1),
                      params |-> group(func_match, line, 2),
                      line |-> line_num]))
            ELSE Returns(result))
    ELSE IF Contains(line, <<"=",">">>) /\ Contains(line, <<"=">>) THEN
        With(re_search(js_arrow_re, line), LAMBDA func_match :
            IF func_match.ok
            THEN Returns(Add(result, "functions",
                     [name |-> group(func_match, line, 2),
                      params |-> IF Len(group(func_match, line, 3)) > 0
                                 THEN group(func_match, line, 3)
                                 ELSE group(func_match, line, 4),
                      line |-> line_num,
                      type |-> "arrow"]))
            ELSE Returns(result))
    ELSE IF startswith(line, <<"c","l","a","s","s"," ">>) THEN
        With(re_match(js_class_re, line), LAMBDA class_match :
            IF class_match.ok
            THEN Returns(Add(result, "classes",
                     [name |-> group(class_match, line, 1),
                      inherits |-> group(class_match, line, 2),
                      line |-> line_num]))
            ELSE Returns(result))
    ELSE IF startswith(line, <<"i","m","p","o","r","t"," ">>) THEN
        Returns(Add(result, "imports", [statement |-> line, line |-> line_num]))
    ELSE IF Contains(line, <<"c","o","n","s","t"," ">>) \/ Contains(line, <<"l","e","t"," ">>) \/ Contains(line, <<"v","a","r"," ">>) THEN
        With(re_match(js_var_re, line), LAMBDA var_match :
            IF var_match.ok
            THEN Returns(Add(result, "variables",
                     [name |-> group(var_match, line, 1),
                      line |-> line_num,
                      value |-> rstrip_semicolon(strip(AfterFirst(line, <<"=">>)))]))
            ELSE Returns(result))
    ELSE Returns(result)

\* the methods of str the classifiers may look up
StrMethods == {"startswith", "endswith", "strip", "rstrip", "split", "count"}
\* line 323 looks up line.endsWith
java_ends_method == "endsWith"

\* lines 349-355: the variable check of _parse_java, an `if` of its own
java_variables(line, line_num, result) ==
    With(re_search(java_var_re, line), LAMBDA var_match :
        IF var_match.ok
        THEN Add(result, "variables",
                 [name |-> group(var_match, line, 2),
                  type |-> group(var_match, line, 1),
                  line |-> line_num])
        ELSE result)

\* lines 323-346: the if/elif chain of _parse_java
java_primary(line, line_num, method_match, result) ==
    IF method_match.ok /\ ~endswith(line, <<";">>) THEN
        Add(result, "functions",
            [name |-> group(method_match, line, 1),
             params |-> group(method_match, line, 2),
             line |-> line_num])
    ELSE IF Contains(line, <<"c","l","a","s","s"," ">>) THEN
        With(re_search(java_class_re, line), LAMBDA class_match :
            IF class_match.ok
            THEN Add(result, "classes",
                     [name |-> group(class_match, line, 1),
                      inherits |-> group(class_match, line, 2),
                      implements |-> group(class_match, line, 3),
                      line |-> line_num])
            ELSE result)
    ELSE IF startswith(line, <<"i","m","p","o","r","t"," ">>) THEN
        Add(result, "imports", [statement |-> line, line |-> line_num])
    ELSE result

_parse_java(line, line_num, result) ==
    With(re_search(java_method_re, line), LAMBDA method_match :
        \* `method_match and not line.endsWith(";")`: the attribute is looked up
        \* only when method_match is truthy
        IF method_match.ok /\ java_ends_method \notin StrMethods
        THEN Raises("AttributeError", result)
        ELSE Returns(java_variables(line, line_num,
                 java_primary(line, line_num, method_match, result))))

\* lines 386-393: the variable check of _parse_c_cpp, an `if` of its own
c_variables(line, line_num, func_match, result) ==
    With(re_search(c_var_re, line), LAMBDA var_match :
        IF var_match.ok /\ ~func_match.ok
        THEN Add(result, "variables",
                 [name |-> group(var_match, line, 2),
                  type |-> group(var_match, line, 1),
                  line |-> line_num])
        ELSE result)

\* lines 361-384: the if/elif chain of _parse_c_cpp
c_primary(line, line_num, func_match, result) ==
    IF func_match.ok /\ ~endswith(line, <<";">>) THEN
        Add(result, "functions",
            [name |-> group(func_match, line, 1),
             params |-> group(func_match, line, 2),
             line |-> line_num])
    ELSE IF Contains(line, <<"c","l","a","s","s"," ">>) \/ Contains(line, <<"s","t","r","u","c","t"," ">>) THEN
        With(re_search(c_class_re, line), LAMBDA class_match :
            IF class_match.ok
            THEN Add(result, "classes",
                     [name |-> group(class_match, line, 1),
                      inherits |-> group(class_match, line, 2),
                      line |-> line_num,
                      type |-> IF Contains(line, <<"c","l","a","s","s"," ">>) THEN "class" ELSE "struct"])
            ELSE result)
    ELSE IF startswith(line, <<"#","i","n","c","l","u","d","e">>) THEN
        Add(result, "imports", [statement |-> line, line |-> line_num])
    ELSE result

_parse_c_cpp(line, line_num, result) ==
    With(re_search(c_func_re, line), LAMBDA func_match :
        Returns(c_variables(line, line_num, func_match,
                    c_primary(line, line_num, func_match, result))))

_parse_go(line, line_num, result) ==
    IF startswith(line, <<"f","u","n","c"," ">>) THEN
        With(re_search(go_func_re, line), LAMBDA func_match :
            IF func_match.ok
            THEN Returns(Add(result, "functions",
                     [name |-> group(func_match, line, 1),
                      params |-> group(func_match, line, 2),
                      line |-> line_num]))
            ELSE Returns(result))
    ELSE IF Contains(line, <<"t","y","p","e"," ">>) /\ Contains(line, <<"s","t","r","u","c","t">>) THEN
        With(re_search(go_struct_re, line), LAMBDA struct_match :
            IF struct_match.ok
            THEN Returns(Add(result, "classes",
                     [name |-> group(struct_match, line, 1),
                      line |-> line_num,
                      type |-> "struct"]))
            ELSE Returns(result))
    ELSE IF startswith(line, <<"i","m","p","o","r","t"," ">>) THEN
        Returns(Add(result, "imports", [statement |-> line, line |-> line_num]))
    ELSE IF Contains(line, <<":","=">>) THEN
        With(re_search(go_short_re, line), LAMBDA var_match :
            IF var_match.ok
            THEN Returns(Add(result, "variables",
                     [name |-> group(var_match, line, 1),
                      line |-> line_num,
                      value |-> strip(AfterFirst(line, <<":","=">>))]))
            ELSE Returns(result))
    ELSE IF Contains(line, <<"v","a","r"," ">>) THEN
        With(re_search(go_var_re, line), LAMBDA var_match :
            IF var_match.ok
            THEN Returns(Add(result, "variables",
                     [name |-> group(var_match, line, 1),
                      type |-> group(var_match, line, 2),
                      line |-> line_num]))
            ELSE Returns(result))
    ELSE Returns(result)

\* classify_line with the javascript classifier for the tags without one
classify_line_default_js(language, line, line_num, result) ==
    IF language = "python" THEN _parse_python(line, line_num, result)
    ELSE IF language = "java" THEN _parse_java(line, line_num, result)
    ELSE IF language \in {"c", "cpp"} THEN _parse_c_cpp(line, line_num, result)
    ELSE IF language = "go" THEN _parse_go(line, line_num, result)
    ELSE _parse_javascript(line, line_num, result)

\* lines 213-222: the classifier of the language, none for the other tags
classify_line(language, line, line_num, result) ==
    IF language = "python" THEN _parse_python(line, line_num, result)
    ELSE IF language \in {"javascript", "typescript"} THEN _parse_javascript(line, line_num, result)
    ELSE IF language = "java" THEN _parse_java(line, line_num, result)
    ELSE IF language \in {"c", "cpp"} THEN _parse_c_cpp(line, line_num, result)
    ELSE IF language = "go" THEN _parse_go(line, line_num, result)
    ELSE Returns(result)

\* lines 198-222: one iteration of the line loop, a comment line classified as
\* well (the `continue` of line 210 left out)
parse_line_no_continue(line, line_num, language, comment_marker, result) ==
    With(strip(line), LAMBDA stripped_line :
        IF Len(stripped_line) = 0 THEN Returns(result)
        ELSE IF Truthy(comment_marker) /\ startswith(stripped_line, comment_marker.v)
        THEN classify_line(language, stripped_line, line_num,
                 Add(result, "comments", [line |-> line_num, text |-> stripped_line]))
        ELSE classify_line(language, stripped_line, line_num, result))

\* lines 198-222 with the marker test of line 205 on the line as read, its
\* leading whitespace included
parse_line_raw_marker(line, line_num, language, comment_marker, result) ==
    With(strip(line), LAMBDA stripped_line :
        IF Len(stripped_line) = 0 THEN Returns(result)
        ELSE IF Truthy(comment_marker) /\ startswith(line, comment_marker.v)
        THEN Returns(Add(result, "comments", [line |-> line_num, text |-> stripped_line]))
        ELSE classify_line(language, stripped_line, line_num, result))

\* lines 198-222: one iteration of the line loop of parse_code
parse_line(line, line_num, language, comment_marker, result) ==
    With(strip(line), LAMBDA stripped_line :
        IF Len(stripped_line) = 0 THEN Returns(result)
        ELSE IF Truthy(comment_marker) /\ startswith(stripped_line, comment_marker.v)
        THEN Returns(Add(result, "comments", [line |-> line_num, text |-> stripped_line]))
        ELSE classify_line(language, stripped_line, line_num, result))

\* lines 196-223: the line loop of parse_code, from line i on; an exception
\* ends it
RECURSIVE parse_lines(_, _, _, _, _)
parse_lines(lines, i, language, comment_marker, result) ==
    IF i > Len(lines) THEN Returns(result)
    ELSE With(parse_line(lines[i], i, language, comment_marker, result), LAMBDA step :
             IF step.exc # "none" THEN step
             ELSE parse_lines(lines, i + 1, language, comment_marker, step.result))

(***************************************************************************)
(* _check_for_issues                                                       *)
(***************************************************************************)
DigitSeq == <<"0","1","2","3","4","5","6","7","8","9">>
\* str(n) for a natural number
RECURSIVE str(_)
str(n) == IF n < 10 THEN <<DigitSeq[n + 1]>> ELSE str(n \div 10) \o <<DigitSeq[(n % 10) + 1]>>

\* code_content[:match.start()].count('\n') + 1
line_of(code_content, m) == count(Slice(code_content, 1, m.from), <<"\n">>) + 1
\* code_content.split('\n')[line_num - 1].strip()
line_text(code_content, line_num) == strip(split(code_content, "\n")[line_num])

\* one issue per match of pattern r, in match order
issues_of(r, code_content, type, description) ==
    With(re_finditer(r, code_content), LAMBDA ms :
        [k \in DOMAIN ms |->
            [type |-> type, line |-> line_of(code_content, ms[k]), description |-> description]])

\* lines 449-459
todo_issues(code_content) ==
    With(re_finditer(todo_pattern, code_content), LAMBDA ms :
        [k \in DOMAIN ms |->
            With(line_of(code_content, ms[k]), LAMBDA line_num :
                [type |-> "todo",
                 line |-> line_num,
                 description |-> <<"T","O","D","O"," ","c","o","m","m","e","n","t",":"," ">> \o line_text(code_content, line_num)])])

\* lines 469-478, pattern by pattern
RECURSIVE credential_issues(_, _)
credential_issues(code_content, p) ==
    IF p > Len(credential_patterns) THEN << >>
    ELSE With(re_finditer(credential_patterns[p], code_content), LAMBDA ms :
             [k \in DOMAIN ms |->
                 With(line_of(code_content, ms[k]), LAMBDA line_num :
                     [type |-> "security",
                      line |-> line_num,
                      description |-> <<"P","o","t","e","n","t","i","a","l"," ","h","a","r","d","c","o","d","e","d"," ","c","r","e","d","e","n","t","i","a","l"," ","a","t"," ","l","i","n","e"," ">>
                                      \o str(line_num)])])
         \o credential_issues(code_content, p + 1)

\* line 518 without its last conjunct
loose_equals_reported_any_line(line) ==
    /\ Contains(line, <<"=">>)
    /\ ~re_search(comparison_re, line).ok

\* line 518: whether a match of [^=]=[^=] on this (stripped) line is reported
loose_equals_reported(line) ==
    /\ Contains(line, <<"=">>)
    /\ ~re_search(comparison_re, line).ok
    /\ ~startswith(strip(line), <<"/","/">>)

\* lines 514-523
loose_equals_issues(code_content) ==
    With(SelectSeq(re_finditer(loose_equals_re, code_content), LAMBDA m :
             loose_equals_reported(line_text(code_content, line_of(code_content, m)))),
         LAMBDA reported :
        [k \in DOMAIN reported |->
            [type |-> "style",
             line |-> line_of(code_content, reported[k]),
             description |-> <<"C","o","n","s","i","d","e","r"," ","u","s","i","n","g"," ","=","=","="," ","i","n","s","t","e","a","d"," ","o","f"," ","=","="," ","f","o","r"," ","c","o","m","p","a","r","i","s","o","n">>]])

\* language_issues with the javascript checks for every tag but python
language_issues_js_default(code_content, language) ==
    IF language = "python" THEN
        issues_of(bare_except_re, code_content, "style",
                  <<"B","a","r","e"," ","e","x","c","e","p","t"," ","c","l","a","u","s","e"," ","s","h","o","u","l","d"," ","s","p","e","c","i","f","y"," ","e","x","c","e","p","t","i","o","n","s">>)
        \o issues_of(mutable_default_re, code_content, "bug",
                  <<"M","u","t","a","b","l","e"," ","d","e","f","a","u","l","t"," ","a","r","g","u","m","e","n","t"," ","(","l","i","s","t",","," ","d","i","c","t",","," ","e","t","c",".",")"," ","c","a","n"," ","c","a","u","s","e"," ","u","n","e","x","p","e","c","t","e","d"," ","b","e","h","a","v","i","o","r">>)
    ELSE
        issues_of(console_log_re, code_content, "debug",
                  <<"c","o","n","s","o","l","e",".","l","o","g"," ","s","t","a","t","e","m","e","n","t"," ","s","h","o","u","l","d"," ","b","e"," ","r","e","m","o","v","e","d"," ","i","n"," ","p","r","o","d","u","c","t","i","o","n"," ","c","o","d","e">>)
        \o loose_equals_issues(code_content)

\* lines 481-523: the checks of the language
language_issues(code_content, language) ==
    IF language = "python" THEN
        issues_of(bare_except_re, code_content, "style",
                  <<"B","a","r","e"," ","e","x","c","e","p","t"," ","c","l","a","u","s","e"," ","s","h","o","u","l","d"," ","s","p","e","c","i","f","y"," ","e","x","c","e","p","t","i","o","n","s">>)
        \o issues_of(mutable_default_re, code_content, "bug",
                  <<"M","u","t","a","b","l","e"," ","d","e","f","a","u","l","t"," ","a","r","g","u","m","e","n","t"," ","(","l","i","s","t",","," ","d","i","c","t",","," ","e","t","c",".",")"," ","c","a","n"," ","c","a","u","s","e"," ","u","n","e","x","p","e","c","t","e","d"," ","b","e","h","a","v","i","o","r">>)
    ELSE IF language \in {"javascript", "typescript"} THEN
        issues_of(console_log_re, code_content, "debug",
                  <<"c","o","n","s","o","l","e",".","l","o","g"," ","s","t","a","t","e","m","e","n","t"," ","s","h","o","u","l","d"," ","b","e"," ","r","e","m","o","v","e","d"," ","i","n"," ","p","r","o","d","u","c","t","i","o","n"," ","c","o","d","e">>)
        \o loose_equals_issues(code_content)
    ELSE << >>

\* a list without the repetitions of its entries
RECURSIVE Dedup(_)
Dedup(list) ==
    IF list = << >> THEN << >>
    ELSE With(Dedup(SubSeq(list, 1, Len(list) - 1)), LAMBDA front :
             IF \E k \in DOMAIN front : front[k] = list[Len(list)] THEN front
             ELSE Append(front, list[Len(list)]))
\* _check_for_issues keeping one of several equal findings
_check_for_issues_dedup(code_content, language) ==
    Dedup(todo_issues(code_content)
          \o credential_issues(code_content, 1)
          \o language_issues(code_content, language))

\* the list `issues` that line 526 appends to result["potential_issues"]
_check_for_issues(code_content, language) ==
    todo_issues(code_content)
    \o credential_issues(code_content, 1)
    \o language_issues(code_content, language)

(***************************************************************************)
(* parse_code                                                              *)
(***************************************************************************)
\* empty_result with len(code_content.splitlines()) as line_count
empty_result_splitlines(code_content, language) ==
    [language |-> language,
     line_count |-> IF code_content = << >> THEN 0
                    ELSE IF code_content[Len(code_content)] = "\n"
                         THEN count(code_content, <<"\n">>)
                         ELSE count(code_content, <<"\n">>) + 1,
     functions |-> << >>,
     classes |-> << >>,
     imports |-> << >>,
     variables |-> << >>,
     comments |-> << >>,
     potential_issues |-> << >>]

\* lines 175-184
empty_result(code_content, language) ==
    [language |-> language,
     line_count |-> count(code_content, <<"\n">>) + 1,
     functions |-> << >>,
     classes |-> << >>,
     imports |-> << >>,
     variables |-> << >>,
     comments |-> << >>,
     potential_issues |-> << >>]

\* parse_code without the return of lines 187-188
parse_code_scans_unknown(lp, code_content, language) ==
    With(parse_lines(split(code_content, "\n"), 1, language,
                     comment_marker_of(lp, language),
                     empty_result(code_content, language)),
         LAMBDA scanned :
        IF scanned.exc # "none" THEN scanned
        ELSE Returns([scanned.result EXCEPT
                 !.potential_issues = @ \o _check_for_issues(code_content, language)]))

parse_code(lp, code_content, language) ==
    IF language = "unknown" THEN Returns(empty_result(code_content, language))
    ELSE
    With(parse_lines(split(code_content, "\n"), 1, language,
                     comment_marker_of(lp, language),
                     empty_result(code_content, language)),
         LAMBDA scanned :
        IF scanned.exc # "none" THEN scanned
        ELSE Returns([scanned.result EXCEPT
                 !.potential_issues = @ \o _check_for_issues(code_content, language)]))

(***************************************************************************)
(* analyze_complexity                                                      *)
(***************************************************************************)
\* decision_patterns with an empty list for a tag without a list of its own
decision_patterns_no_fallback(language) ==
    IF language = "python" THEN
        <<WholeWord(<<"i","f">>), WholeWord(<<"e","l","i","f">>), WholeWord(<<"f","o","r">>), WholeWord(<<"w","h","i","l","e">>),
          WholeWord(<<"e","x","c","e","p","t">>), WholeWord(<<"a","n","d">>), WholeWord(<<"o","r">>)>>
    ELSE IF language = "c" THEN
        <<WholeWord(<<"i","f">>), WholeWord(<<"e","l","s","e"," ","i","f">>), WholeWord(<<"f","o","r">>), WholeWord(<<"w","h","i","l","e">>),
          WholeWord(<<"c","a","s","e">>), WholeWord(<<"&","&">>), WholeWord(<<"|","|">>)>>
    ELSE IF language = "go" THEN
        <<WholeWord(<<"i","f">>), WholeWord(<<"e","l","s","e"," ","i","f">>), WholeWord(<<"f","o","r">>), WholeWord(<<"s","w","i","t","c","h">>),
          WholeWord(<<"c","a","s","e">>), WholeWord(<<"&","&">>), WholeWord(<<"|","|">>)>>
    ELSE IF language \in {"javascript", "java", "cpp"} THEN
        <<WholeWord(<<"i","f">>), WholeWord(<<"e","l","s","e"," ","i","f">>), WholeWord(<<"f","o","r">>), WholeWord(<<"w","h","i","l","e">>),
          WholeWord(<<"c","a","s","e">>), WholeWord(<<"c","a","t","c","h">>), WholeWord(<<"&","&">>), WholeWord(<<"|","|">>)>>
    ELSE << >>

\* lines 567-574: decision_patterns, each pattern \b...\b
decision_patterns(language) ==
    IF language = "python" THEN
        <<WholeWord(<<"i","f">>), WholeWord(<<"e","l","i","f">>), WholeWord(<<"f","o","r">>), WholeWord(<<"w","h","i","l","e">>),
          WholeWord(<<"e","x","c","e","p","t">>), WholeWord(<<"a","n","d">>), WholeWord(<<"o","r">>)>>
    ELSE IF language = "c" THEN
        <<WholeWord(<<"i","f">>), WholeWord(<<"e","l","s","e"," ","i","f">>), WholeWord(<<"f","o","r">>), WholeWord(<<"w","h","i","l","e">>),
          WholeWord(<<"c","a","s","e">>), WholeWord(<<"&","&">>), WholeWord(<<"|","|">>)>>
    ELSE IF language = "go" THEN
        <<WholeWord(<<"i","f">>), WholeWord(<<"e","l","s","e"," ","i","f">>), WholeWord(<<"f","o","r">>), WholeWord(<<"s","w","i","t","c","h">>),
          WholeWord(<<"c","a","s","e">>), WholeWord(<<"&","&">>), WholeWord(<<"|","|">>)>>
    ELSE
        \* javascript, java, cpp, and line 576: every other tag gets the javascript list
        <<WholeWord(<<"i","f">>), WholeWord(<<"e","l","s","e"," ","i","f">>), WholeWord(<<"f","o","r">>), WholeWord(<<"w","h","i","l","e">>),
          WholeWord(<<"c","a","s","e">>), WholeWord(<<"c","a","t","c","h">>), WholeWord(<<"&","&">>), WholeWord(<<"|","|">>)>>

\* the base complexity of line 577
BaseComplexity == 1

\* lines 579-580: len(re.findall(pattern, code_content)) summed over the patterns
RECURSIVE decision_count(_, _, _)
decision_count(patterns, code_content, k) ==
    IF k > Len(patterns) THEN 0
    ELSE Len(re_finditer(patterns[k], code_content))
         + decision_count(patterns, code_content, k + 1)

Max(a, b) == IF a >= b THEN a ELSE b

\* line 608: the decrease of current_depth when the indentation shrinks
dedent(prev_indent, indent) == Max(0, (prev_indent - indent) \div 2)

\* new_depth with a decrease of 1 per dedent
new_depth_dedent_one(prev_indent, indent, current_depth) ==
    IF indent > prev_indent THEN current_depth + 1
    ELSE IF indent < prev_indent THEN current_depth - 1
    ELSE current_depth

\* lines 605-608: current_depth after a line of this indentation
new_depth(prev_indent, indent, current_depth) ==
    IF indent > prev_indent THEN current_depth + 1
    ELSE IF indent < prev_indent THEN current_depth - dedent(prev_indent, indent)
    ELSE current_depth

\* lines 596-611: the values current_depth takes, one after each line the scan
\* reads, from line i on
RECURSIVE depth_trace(_, _, _, _, _)
depth_trace(lines, i, comment_marker, prev_indent, current_depth) ==
    IF i > Len(lines) THEN << >>
    ELSE
    IF \/ Len(strip(lines[i])) = 0
       \/ (Truthy(comment_marker) /\ startswith(strip(lines[i]), comment_marker.v))
    THEN depth_trace(lines, i + 1, comment_marker, prev_indent, current_depth)
    ELSE With(re_match(indent_pattern, lines[i]), LAMBDA match :
        IF match.ok
        THEN With(Len(group(match, lines[i], 1)), LAMBDA indent :
                 With(new_depth(prev_indent, indent, current_depth), LAMBDA depth :
                     <<depth>> \o depth_trace(lines, i + 1, comment_marker, indent, depth)))
        ELSE depth_trace(lines, i + 1, comment_marker, prev_indent, current_depth))

\* the scan reporting current_depth as it is after the last line
RECURSIVE nesting_scan_final_depth(_, _, _, _, _, _)
nesting_scan_final_depth(lines, i, comment_marker, prev_indent, current_depth, max_depth) ==
    IF i > Len(lines) THEN current_depth
    ELSE
    IF \/ Len(strip(lines[i])) = 0
       \/ (Truthy(comment_marker) /\ startswith(strip(lines[i]), comment_marker.v))
    THEN nesting_scan_final_depth(lines, i + 1, comment_marker, prev_indent, current_depth, max_depth)
    ELSE With(re_match(indent_pattern, lines[i]), LAMBDA match :
        IF match.ok
        THEN With(Len(group(match, lines[i], 1)), LAMBDA indent :
                 With(new_depth(prev_indent, indent, current_depth), LAMBDA depth :
                     nesting_scan_final_depth(lines, i + 1, comment_marker, indent, depth,
                                              Max(max_depth, depth))))
        ELSE nesting_scan_final_depth(lines, i + 1, comment_marker, prev_indent, current_depth, max_depth))

\* lines 596-611: the scan of the lines from line i on; returns max_depth
RECURSIVE nesting_scan(_, _, _, _, _, _)
nesting_scan(lines, i, comment_marker, prev_indent, current_depth, max_depth) ==
    IF i > Len(lines) THEN max_depth
    ELSE
    IF \/ Len(strip(lines[i])) = 0
       \/ (Truthy(comment_marker) /\ startswith(strip(lines[i]), comment_marker.v))
    THEN nesting_scan(lines, i + 1, comment_marker, prev_indent, current_depth, max_depth)
    ELSE With(re_match(indent_pattern, lines[i]), LAMBDA match :
        IF match.ok
        THEN With(Len(group(match, lines[i], 1)), LAMBDA indent :
                 With(new_depth(prev_indent, indent, current_depth), LAMBDA depth :
                     nesting_scan(lines, i + 1, comment_marker, indent, depth,
                                  Max(max_depth, depth))))
        ELSE nesting_scan(lines, i + 1, comment_marker, prev_indent, current_depth, max_depth))

\* comment_count / line_count, kept as the fraction
ratio(num, den) == IF den > 0 THEN [num |-> num, den |-> den] ELSE [num |-> 0, den |-> 1]

\* lines 539-546
zero_report(code_content) ==
    [cyclomatic_complexity |-> 0,
     nesting_depth |-> 0,
     function_count |-> 0,
     class_count |-> 0,
     line_count |-> count(code_content, <<"\n">>) + 1,
     comment_ratio |-> ratio(0, 1)]

\* analyze_complexity with complexity starting at 0 at line 577
analyze_complexity_no_base(lp, code_content, language) ==
    IF language = "unknown" THEN Returns(zero_report(code_content))
    ELSE
    With(parse_code(lp, code_content, language), LAMBDA parsed_code :
        IF parsed_code.exc # "none" THEN Raises(parsed_code.exc, zero_report(code_content))
        ELSE With(count(code_content, <<"\n">>) + 1, LAMBDA line_count :
            Returns(
            [cyclomatic_complexity |->
                 decision_count(decision_patterns(language), code_content, 1),
             nesting_depth |->
                 nesting_scan(split(code_content, "\n"), 1,
                              comment_marker_of(lp, language), 0, 0, 0),
             function_count |-> Len(parsed_code.result.functions),
             class_count |-> Len(parsed_code.result.classes),
             line_count |-> line_count,
             comment_ratio |-> ratio(Len(parsed_code.result.comments), line_count)])))

\* analyze_complexity without the return of lines 549-550
analyze_complexity_scans_unknown(lp, code_content, language) ==
    With(parse_code(lp, code_content, language), LAMBDA parsed_code :
        IF parsed_code.exc # "none" THEN Raises(parsed_code.exc, zero_report(code_content))
        ELSE With(count(code_content, <<"\n">>) + 1, LAMBDA line_count :
            Returns(
            [cyclomatic_complexity |->
                 BaseComplexity + decision_count(decision_patterns(language), code_content, 1),
             nesting_depth |->
                 nesting_scan(split(code_content, "\n"), 1,
                              comment_marker_of(lp, language), 0, 0, 0),
             function_count |-> Len(parsed_code.result.functions),
             class_count |-> Len(parsed_code.result.classes),
             line_count |-> line_count,
             comment_ratio |-> ratio(Len(parsed_code.result.comments), line_count)])))

analyze_complexity(lp, code_content, language) ==
    IF language = "unknown" THEN Returns(zero_report(code_content))
    ELSE
    With(parse_code(lp, code_content, language), LAMBDA parsed_code :
        IF parsed_code.exc # "none" THEN Raises(parsed_code.exc, zero_report(code_content))
        ELSE With(count(code_content, <<"\n">>) + 1, LAMBDA line_count :
            Returns(
            [cyclomatic_complexity |->
                 BaseComplexity + decision_count(decision_patterns(language), code_content, 1),
             nesting_depth |->
                 nesting_scan(split(code_content, "\n"), 1,
                              comment_marker_of(lp, language), 0, 0, 0),
             function_count |-> Len(parsed_code.result.functions),
             class_count |-> Len(parsed_code.result.classes),
             line_count |-> line_count,
             comment_ratio |-> ratio(Len(parsed_code.result.comments), line_count)])))

(***************************************************************************)
(* The analyzer as a state machine: one analysis request runs              *)
(* detect_language, then parse_code, then analyze_complexity on one text   *)
(* (main.py lines 104-105 and 140-141 call the first two in this order).   *)
(*                                                                         *)
(* CodeAnalyzer() itself raises NameError at line 104 (init_raised); the   *)
(* methods are analysed on the registry the display of lines 10-111        *)
(* denotes, the json comment being absent.                                 *)
(***************************************************************************)
VARIABLES
    language_patterns,  \* self.language_patterns
    init_raised,        \* the exception __init__ raised, "none" if it returned
    op,                 \* the last call: "idle", "detect", "parse", "estimate"
    code_content,       \* the text of the request
    detected,           \* the tag detect_language returned
    language,           \* the tag passed to parse_code and analyze_complexity
    parsed,             \* what parse_code did: [exc, result]
    complexity,         \* what analyze_complexity did: [exc, result]
    answered            \* history: whether the analyzer answered an earlier request

vars == <<language_patterns, init_raised, op, code_content, detected, language,
          parsed, complexity, answered>>

\* the number of lines of an input text
MaxLines == 2

\* first lines that carry a fast-path marker
MarkerLines ==
    << <<"#","!","/","b","i","n","/","b","a","s","h">>,
       <<"#","!","/","b","i","n","/","s","h">>,
       <<"#","!","/","u","s","r","/","b","i","n","/","e","n","v"," ","p","y","t","h","o","n">>,
       <<"#","!","/","u","s","r","/","b","i","n","/","e","n","v"," ","n","o","d","e">>,
       <<"<","?","p","h","p">> >>

\* the lines the input texts are made of
BodyLines ==
    << << >>,
       <<"d","e","f"," ","f","o","o","(","a",","," ","b",")",":">>,
       <<"x"," ","="," ","1">>,
       <<"p","a","s","s","w","o","r","d"," ","="," ","\"","h","u","n","t","e","r","2","\"">>,
       <<"x"," ","=","="," ","y">>,
       <<"/","/"," ","x"," ","=","="," ","y">>,
       <<" "," ","/","/"," ","v","a","r"," ","a"," ","="," ","b">>,
       <<"p","u","b","l","i","c"," ","v","o","i","d"," ","f","(",")"," ","{">>,
       <<"s","t","r","u","c","t"," ","P","o","i","n","t"," ","p",";">>,
       <<"f","u","n","c","t","i","o","n"," ","f","(","x",")"," ","{"," ","r","e","t","u","r","n"," ","x",";"," ","}">> >>

AllLines == {MarkerLines[k] : k \in DOMAIN MarkerLines} \cup {BodyLines[k] : k \in DOMAIN BodyLines}
BodySet == {BodyLines[k] : k \in DOMAIN BodyLines}

\* the texts of at most n lines: a first line, then body lines
RECURSIVE LineSeqs(_)
LineSeqs(n) ==
    IF n = 0 THEN { << >> }
    ELSE IF n = 1 THEN { <<l>> : l \in AllLines }
    ELSE LineSeqs(n - 1) \cup { Append(ls, l) : ls \in LineSeqs(n - 1) \ { << >> }, l \in BodySet }
LineTexts == { join(ls) : ls \in LineSeqs(MaxLines) }

\* texts of more lines: the scenarios of the specification and texts with nested
\* indentation and several findings on a line
SampleTexts ==
    { \* scenario 1 of the specification
      <<"d","e","f"," ","f","o","o","(","a",","," ","b",")",":","\n"," "," "," "," ","r","e","t","u","r","n"," ","a"," ","+"," ","b","\n">>,
      \* scenario 3 of the specification
      <<"/","/"," ","T","O","D","O",":"," ","f","i","x"," ","t","h","i","s","\n","f","u","n","c","t","i","o","n"," ","f","(","x",")"," ","{"," ","r","e","t","u","r","n"," ","x",";"," ","}","\n">>,
      \* three matches of two issue rules on one line
      <<"t","o","k","e","n"," ","="," ","\"","t","\""," ","#"," ","T","o","d","o"," ","B","U","G">>,
      \* indentation that grows and shrinks by odd and even widths
      <<"a","\n"," "," ","b","\n"," "," "," "," ","c","\n"," "," "," ","d","\n"," "," "," "," ","e","\n","f">>,
      \* a decision keyword, a python comment and a dedent below depth 0
      <<"i","f"," ","a",":","\n"," "," "," "," "," "," "," "," ","b","\n","#"," ","x","\n","c","\n"," "," ","d">>,
      \* an indented comment line between code lines
      <<"x","\n"," "," "," "," ","/","/"," ","c","\n"," "," ","e","\n"," "," "," "," ","f">>,
      \* decision keywords and logical operators, spaced and unspaced
      <<"i","f"," ","(","a"," ","&","&"," ","b",")"," ","{","\n","}"," ","e","l","s","e"," ","i","f"," ","(","c","&","&","d",")"," ","{","\n","}">>,
      \* text on which every language-specific issue rule matches
      <<"d","e","f"," ","f","(","a","=","[","]",")",":","\n"," "," ","c","o","n","s","o","l","e",".","l","o","g","(","a",")","\n","e","x","c","e","p","t",":">>,
      \* markup without any keyword of the registry
      <<"<","p",">","x","<","/","p",">">>,
      \* indentation alternating between two widths
      <<"a","\n"," ","b","\n","c","\n"," ","d">> }

Texts == LineTexts \cup SampleTexts

\* the tags a caller passes: the registered ones, "typescript" (lines 215, 502)
\* and "unknown"
Tags == TagSet(language_patterns_display) \cup {"typescript", "unknown"}

NoOutcome == [exc |-> "none", result |-> << >>]

Init ==
    /\ language_patterns = language_patterns_display
    /\ init_raised = init_outcome
    /\ op = "idle"
    /\ code_content = << >>
    /\ detected = ""
    /\ language = ""
    /\ parsed = NoOutcome
    /\ complexity = NoOutcome
    /\ answered = FALSE

\* detect_language moving the entry of the detected language to the front of
\* self.language_patterns
DetectLanguage_reorders(text) ==
    /\ op = "idle"
    /\ op' = "detect"
    /\ code_content' = text
    /\ detected' = detect_language(language_patterns, text)
    /\ language_patterns' =
           SelectSeq(language_patterns, LAMBDA e : e.lang = detected')
           \o SelectSeq(language_patterns, LAMBDA e : e.lang # detected')
    /\ UNCHANGED <<init_raised, language, parsed, complexity, answered>>

\* detect_language(code_content)
DetectLanguage(text) ==
    /\ op = "idle"
    /\ op' = "detect"
    /\ code_content' = text
    /\ detected' = detect_language(language_patterns, text)
    /\ UNCHANGED <<language_patterns, init_raised, language, parsed, complexity, answered>>

\* parse_code(code_content, tag)
ParseCode(tag) ==
    /\ op = "detect"
    /\ op' = "parse"
    /\ language' = tag
    /\ parsed' = parse_code(language_patterns, code_content, tag)
    /\ UNCHANGED <<language_patterns, init_raised, code_content, detected, complexity, answered>>

\* analyze_complexity(code_content, language)
AnalyzeComplexity ==
    /\ op = "parse"
    /\ op' = "estimate"
    /\ complexity' = analyze_complexity(language_patterns, code_content, language)
    /\ UNCHANGED <<language_patterns, init_raised, code_content, detected, language, parsed, answered>>

\* one request: detect_language on a text, parse_code with a tag, then
\* analyze_complexity with the same arguments
Next ==
    \/ op = "idle" /\ \E text \in Texts : DetectLanguage(text)
    \/ op = "detect" /\ \E tag \in Tags : ParseCode(tag)
    \/ AnalyzeComplexity

Spec == Init /\ [][Next]_vars

\* the request is answered and its results are dropped; the analyzer of main.py
\* line 36 serves the next request
NextRequest ==
    /\ op \in {"parse", "estimate"}
    /\ op' = "idle"
    /\ code_content' = << >>
    /\ detected' = ""
    /\ language' = ""
    /\ parsed' = NoOutcome
    /\ complexity' = NoOutcome
    /\ answered' = TRUE
    /\ UNCHANGED <<language_patterns, init_raised>>

\* one analyzer serving request after request
NextRequests ==
    \/ op = "idle" /\ \E text \in Texts : DetectLanguage(text)
    \/ op = "detect" /\ \E tag \in Tags : ParseCode(tag)
    \/ AnalyzeComplexity
    \/ NextRequest

SpecRequests == Init /\ [][NextRequests]_vars

(***************************************************************************)
(* Properties of the analyzer, one block per claim.                        *)
(***************************************************************************)
\* the lines of the text of the request
TextLines == split(code_content, "\n")
\* the line numbers a list of entries of a parse result names
LinesOf(list) == {list[k].line : k \in DOMAIN list}
\* whether parse_code returned a result for the request
ParseReturned == op \in {"parse", "estimate"} /\ parsed.exc = "none"
JsFamily == {"javascript", "typescript"}

\* C1: parse_code and analyze_complexity return for every text and every tag;
\* no exception propagates out of either call.
C1_NeverRaises ==
    /\ op \in {"parse", "estimate"} => parsed.exc = "none"
    /\ op = "estimate" => complexity.exc = "none"

\* C2: building the registry does not raise, and detect_language returns a
\* registered tag or "unknown" for every text.
C2_DetectorNeverFails ==
    /\ init_raised = "none"
    /\ op # "idle" => detected \in TagSet(language_patterns) \cup {"unknown"}

\* the markers of the fast path with the tag each stands for
C3_Markers ==
    { <<<<"#","!","/","b","i","n","/","b","a","s","h">>, "bash">>,
      <<<<"#","!","/","b","i","n","/","s","h">>, "bash">>,
      <<<<"#","!","/","u","s","r","/","b","i","n","/","e","n","v"," ","p","y","t","h","o","n">>, "python">>,
      <<<<"#","!","/","u","s","r","/","b","i","n","/","e","n","v"," ","n","o","d","e">>, "javascript">>,
      <<<<"<","?","p","h","p">>, "php">> }
HasMarker == \E p \in C3_Markers : startswith(TextLines[1], p[1])

\* the score the specification gives a language: 2 for each of the
\* non-overlapping occurrences of each keyword, 5 more under the bonus condition
Separated(P, n) == \A a \in P : \A b \in P : a < b => b - a >= n
NonOverlapping(text, kw) ==
    With({Cardinality(P) : P \in {Q \in SUBSET {i \in 1..Len(text) : PrefixAt(text, i, kw)} :
                                      Separated(Q, Len(kw))}},
         LAMBDA sizes : CHOOSE n \in sizes : \A m \in sizes : m <= n)
RECURSIVE KeywordOccurrences(_, _, _)
KeywordOccurrences(keywords, text, k) ==
    IF k > Len(keywords) THEN 0
    ELSE NonOverlapping(text, keywords[k]) + KeywordOccurrences(keywords, text, k + 1)
StatedScore(k) ==
    2 * KeywordOccurrences(language_patterns[k].keywords, code_content, 1)
    + (IF bonus_applies(language_patterns[k].lang, code_content) THEN 5 ELSE 0)
StatedScores == [k \in DOMAIN language_patterns |-> StatedScore(k)]
IsMaximal(scores, k) == \A j \in DOMAIN scores : scores[j] <= scores[k]

\* C3: a text whose first line starts with a fast-path marker is detected as
\* the marker's language, whatever the keyword scores of the text are.
C3_FastPath ==
    op = "detect" =>
        \A p \in C3_Markers : startswith(TextLines[1], p[1]) => detected = p[2]
\* a bash marker followed by text that scores higher for another language
C3_Witness ==
    /\ op = "detect"
    /\ startswith(TextLines[1], <<"#","!","/","b","i","n","/","b","a","s","h">>)
    /\ detected = "bash"
    /\ \E j \in DOMAIN language_patterns : \E k \in DOMAIN language_patterns :
          /\ language_patterns[k].lang = "bash"
          /\ StatedScore(j) > StatedScore(k)

\* C4: with no marker on the first line and some language scoring above 0
\* (the case of score 0 is C5), detect_language returns the language of maximal
\* score, the score being 2 per non-overlapping keyword occurrence plus 5 under
\* the bonus condition; among languages of maximal score the one registered
\* first is returned.
C4_MaximalScore ==
    (op = "detect" /\ ~HasMarker) =>
        With(StatedScores, LAMBDA scores :
            (\E k \in DOMAIN scores : scores[k] > 0) =>
                \E k \in DOMAIN scores :
                    /\ detected = language_patterns[k].lang
                    /\ IsMaximal(scores, k)
                    /\ \A j \in 1..(k - 1) : scores[j] < scores[k])
\* two languages share the positive maximal score; the one registered first is
\* returned
C4_Witness ==
    /\ op = "detect"
    /\ ~HasMarker
    /\ With(StatedScores, LAMBDA scores :
           \E j \in DOMAIN scores : \E k \in DOMAIN scores :
               /\ j < k
               /\ scores[j] > 0
               /\ scores[j] = scores[k]
               /\ IsMaximal(scores, j)
               /\ detected = language_patterns[j].lang)

\* C5: with no marker on the first line, detect_language returns "unknown"
\* exactly when the maximal score is 0; the empty text is detected as "unknown".
C5_UnknownIffZero ==
    /\ (op = "detect" /\ ~HasMarker) =>
           With(StatedScores, LAMBDA scores :
               (detected = "unknown") <=> (\A k \in DOMAIN scores : scores[k] = 0))
    /\ (op = "detect" /\ code_content = << >>) => detected = "unknown"
\* a text that is not empty and scores 0 for every language
C5_Witness ==
    /\ op = "detect"
    /\ ~HasMarker
    /\ Len(code_content) > 0
    /\ detected = "unknown"
    /\ \A k \in DOMAIN language_patterns : StatedScore(k) = 0

\* the literal of the credential scenario
C6_Literal == <<"p","a","s","s","w","o","r","d"," ","="," ","\"","h","u","n","t","e","r","2","\"">>
\* C6: for a text that contains the literal password = "hunter2", detect_language
\* followed by parse_code with the detected tag ("unknown" included) reports a
\* finding of type "security" on a line that contains the literal.
C6_CredentialFound ==
    (op = "parse" /\ language = detected /\ Contains(code_content, C6_Literal)) =>
        /\ parsed.exc = "none"
        /\ \E k \in DOMAIN parsed.result.potential_issues :
              /\ parsed.result.potential_issues[k].type = "security"
              /\ Contains(TextLines[parsed.result.potential_issues[k].line], C6_Literal)

\* C7: in javascript source, every line equal to `x == y` gets a finding of
\* type "style" on that line.
C7_LooseEqualityFound ==
    (ParseReturned /\ language \in JsFamily) =>
        \A n \in DOMAIN TextLines :
            TextLines[n] = <<"x"," ","=","="," ","y">> =>
                \E k \in DOMAIN parsed.result.potential_issues :
                    /\ parsed.result.potential_issues[k].type = "style"
                    /\ parsed.result.potential_issues[k].line = n

\* C8: in javascript source, no finding of type "style" is on a line whose
\* stripped text starts with //.
C8_NoFindingOnCommentLine ==
    (ParseReturned /\ language \in JsFamily) =>
        \A k \in DOMAIN parsed.result.potential_issues :
            parsed.result.potential_issues[k].type = "style" =>
                ~startswith(strip(TextLines[parsed.result.potential_issues[k].line]), <<"/","/">>)
\* javascript source with a // line on which [^=]=[^=] matches, next to a line
\* that does get the finding
C8_Witness ==
    /\ op = "parse"
    /\ language = "javascript"
    /\ parsed.exc = "none"
    /\ \E n \in DOMAIN TextLines :
          /\ startswith(strip(TextLines[n]), <<"/","/">>)
          /\ re_search(loose_equals_re, TextLines[n]).ok
          /\ n \notin LinesOf(parsed.result.potential_issues)
    /\ \E k \in DOMAIN parsed.result.potential_issues :
          parsed.result.potential_issues[k].type = "style"

\* C9: in every parse result a line number is in at most one of the lists
\* functions, classes, imports, variables, and at most once in that list.
C9_OneEntityPerLine ==
    ParseReturned =>
        \A n \in 1..parsed.result.line_count :
            Cardinality({k \in DOMAIN parsed.result.functions : parsed.result.functions[k].line = n})
            + Cardinality({k \in DOMAIN parsed.result.classes : parsed.result.classes[k].line = n})
            + Cardinality({k \in DOMAIN parsed.result.imports : parsed.result.imports[k].line = n})
            + Cardinality({k \in DOMAIN parsed.result.variables : parsed.result.variables[k].line = n})
            <= 1

\* the lines of the structural entities of the parse result
EntityLines ==
    LinesOf(parsed.result.functions) \cup LinesOf(parsed.result.classes)
    \cup LinesOf(parsed.result.imports) \cup LinesOf(parsed.result.variables)
\* C10: in every parse result no line number is both in the comments list and
\* in one of the lists functions, classes, imports, variables.
C10_CommentCodeExclusive ==
    ParseReturned => LinesOf(parsed.result.comments) \cap EntityLines = {}
\* a javascript result with an entity and with a comment line that the variable
\* pattern of the classifier matches
C10_Witness ==
    /\ op = "parse"
    /\ language = "javascript"
    /\ parsed.exc = "none"
    /\ EntityLines # {}
    /\ \E k \in DOMAIN parsed.result.comments :
          re_search(js_var_re, parsed.result.comments[k].text).ok

\* the number of newline characters of the text of the request
Newlines == Cardinality({i \in DOMAIN code_content : code_content[i] = "\n"})
\* the findings of one type, in the order of the result
FindingsOf(type) == SelectSeq(parsed.result.potential_issues, LAMBDA f : f.type = type)

\* C11: parse_code with the tag "unknown" returns, for every text, a result whose
\* functions, classes, imports, variables, comments and potential_issues are
\* empty and whose line_count is set; no line is classified and no issue rule
\* is applied.
C11_UnknownParseIsEmpty ==
    (op \in {"parse", "estimate"} /\ language = "unknown") =>
        /\ parsed.exc = "none"
        /\ parsed.result.language = "unknown"
        /\ parsed.result.functions = << >>
        /\ parsed.result.classes = << >>
        /\ parsed.result.imports = << >>
        /\ parsed.result.variables = << >>
        /\ parsed.result.comments = << >>
        /\ parsed.result.potential_issues = << >>
        /\ parsed.result.line_count = Newlines + 1
\* the tag "unknown" with a text on which the credential rule and the function
\* pattern of javascript both match
C11_Witness ==
    /\ op = "parse"
    /\ language = "unknown"
    /\ parsed.exc = "none"
    /\ parsed.result.potential_issues = << >>
    /\ re_finditer(credential_patterns[1], code_content) # << >>
    /\ \E n \in DOMAIN TextLines : re_search(js_func_re, TextLines[n]).ok

\* C12: analyze_complexity with the tag "unknown" returns, for every text,
\* cyclomatic_complexity, nesting_depth, function_count, class_count and
\* comment_ratio equal to 0 and line_count equal to the number of newlines plus
\* 1; for the empty text line_count is 1.
C12_UnknownEstimateIsZero ==
    (op = "estimate" /\ language = "unknown") =>
        /\ complexity.exc = "none"
        /\ complexity.result.cyclomatic_complexity = 0
        /\ complexity.result.nesting_depth = 0
        /\ complexity.result.function_count = 0
        /\ complexity.result.class_count = 0
        /\ complexity.result.comment_ratio.num = 0
        /\ complexity.result.line_count = Newlines + 1
        /\ code_content = << >> => complexity.result.line_count = 1
\* the tag "unknown" with the empty text
C12_Witness ==
    /\ op = "estimate"
    /\ language = "unknown"
    /\ code_content = << >>
    /\ complexity.exc = "none"
    /\ complexity.result.line_count = 1
    /\ complexity.result.cyclomatic_complexity = 0

\* C13 as stated: every report analyze_complexity returns, for every text and
\* every tag, has cyclomatic_complexity >= 1.
C13_ComplexityAtLeastOne ==
    (op = "estimate" /\ complexity.exc = "none") =>
        complexity.result.cyclomatic_complexity >= 1
\* C13, amended: every report analyze_complexity returns for a tag other than
\* "unknown" has cyclomatic_complexity >= 1 (for "unknown" it is 0).
C13_KnownComplexityAtLeastOne ==
    (op = "estimate" /\ complexity.exc = "none" /\ language # "unknown") =>
        complexity.result.cyclomatic_complexity >= 1
\* a known tag and a text without decision keyword: the report carries exactly
\* the base complexity
C13_Witness ==
    /\ op = "estimate"
    /\ language \notin {"unknown", ""}
    /\ complexity.exc = "none"
    /\ Len(code_content) > 0
    /\ complexity.result.cyclomatic_complexity = 1

\* C14: the line_count of every result of parse_code and of every report of
\* analyze_complexity is the number of newline characters of the text plus 1;
\* for the empty text it is 1.
C14_LineCount ==
    /\ ParseReturned => parsed.result.line_count = Newlines + 1
    /\ (op = "estimate" /\ complexity.exc = "none") =>
           complexity.result.line_count = Newlines + 1
    /\ (ParseReturned /\ code_content = << >>) => parsed.result.line_count = 1
\* a text that ends with a newline, under a known tag
C14_Witness ==
    /\ op = "estimate"
    /\ language \notin {"unknown", ""}
    /\ complexity.exc = "none"
    /\ Len(code_content) > 0
    /\ code_content[Len(code_content)] = "\n"
    /\ Newlines = 2
    /\ parsed.result.line_count = 3
    /\ complexity.result.line_count = 3

\* the number of newline characters before position i of the text
NewlinesBefore(i) == Cardinality({j \in 1..(i - 1) : code_content[j] = "\n"})
\* whether a comparison operator (one of < > ! = followed by =) is on the line
HasComparison(line) ==
    \E i \in 1..(Len(line) - 1) : line[i] \in {"<", ">", "!", "="} /\ line[i + 1] = "="
\* the matches of the rules that report findings of one type, in the order of
\* the rules; the loose-equality rule leaves out comment lines and lines with a
\* comparison operator
RuleMatches(type) ==
    IF type = "todo" THEN re_finditer(todo_pattern, code_content)
    ELSE IF type = "security" THEN
        re_finditer(credential_patterns[1], code_content)
        \o re_finditer(credential_patterns[2], code_content)
        \o re_finditer(credential_patterns[3], code_content)
        \o re_finditer(credential_patterns[4], code_content)
    ELSE IF language = "python" /\ type = "style" THEN re_finditer(bare_except_re, code_content)
    ELSE IF language = "python" /\ type = "bug" THEN re_finditer(mutable_default_re, code_content)
    ELSE IF language \in JsFamily /\ type = "debug" THEN re_finditer(console_log_re, code_content)
    ELSE IF language \in JsFamily /\ type = "style" THEN
        SelectSeq(re_finditer(loose_equals_re, code_content), LAMBDA m :
            With(strip(TextLines[NewlinesBefore(m.from) + 1]), LAMBDA line :
                ~HasComparison(line) /\ ~startswith(line, <<"/","/">>)))
    ELSE << >>
IssueTypes == {"todo", "security", "style", "bug", "debug"}

\* C15: in the result of parse_code for a known tag, the findings of each type
\* are, one for one and in order, the matches of the rules of that type, each
\* with the line number (newlines before the start of the match) + 1; matches
\* on one line all keep their finding, and a rule without match adds none.
C15_OneFindingPerMatch ==
    (ParseReturned /\ language # "unknown") =>
        /\ \A k \in DOMAIN parsed.result.potential_issues :
              parsed.result.potential_issues[k].type \in IssueTypes
        /\ \A type \in IssueTypes :
              With(RuleMatches(type), LAMBDA ms :
                  With(FindingsOf(type), LAMBDA fs :
                      /\ Len(fs) = Len(ms)
                      /\ \A k \in DOMAIN fs : fs[k].line = NewlinesBefore(ms[k].from) + 1))
\* two equal findings of the todo rule and a finding of the credential rule on
\* one line, and a rule that matches nowhere
C15_Witness ==
    /\ op = "parse"
    /\ language = "javascript"
    /\ parsed.exc = "none"
    /\ Len(FindingsOf("todo")) = 2
    /\ FindingsOf("todo")[1] = FindingsOf("todo")[2]
    /\ Len(FindingsOf("security")) = 1
    /\ FindingsOf("security")[1].line = FindingsOf("todo")[1].line
    /\ RuleMatches("debug") = << >>
    /\ FindingsOf("debug") = << >>

\* C16: on an analyzer that serves request after request, no call changes
\* self.language_patterns, and what detect_language, parse_code and
\* analyze_complexity returned is what the call returns for its text and tag on
\* the registry as built, whatever requests were served before.
C16_NoHiddenState ==
    /\ language_patterns = language_patterns_display
    /\ op # "idle" => detected = detect_language(language_patterns_display, code_content)
    /\ op \in {"parse", "estimate"} =>
           parsed = parse_code(language_patterns_display, code_content, language)
    /\ op = "estimate" =>
           complexity = analyze_complexity(language_patterns_display, code_content, language)
\* a later request, all three calls made, on a text where two languages tie
C16_Witness ==
    /\ answered
    /\ op = "estimate"
    /\ complexity.exc = "none"
    /\ language = detected
    /\ \E j \in DOMAIN language_patterns : \E k \in DOMAIN language_patterns :
          /\ j < k
          /\ language_patterns[j].lang = detected
          /\ StatedScore(j) = StatedScore(k)

\* whether the line numbers grow strictly along a list of entries
Increasing(list) == \A j \in DOMAIN list : \A k \in DOMAIN list : j < k => list[j].line < list[k].line
\* C17: in every result of parse_code the line numbers grow strictly along each
\* of the lists functions, classes, imports, variables and comments.
C17_SourceOrder ==
    ParseReturned =>
        /\ Increasing(parsed.result.functions)
        /\ Increasing(parsed.result.classes)
        /\ Increasing(parsed.result.imports)
        /\ Increasing(parsed.result.variables)
        /\ Increasing(parsed.result.comments)
\* a result with two entries in one list
C17_Witness ==
    /\ op = "parse"
    /\ parsed.exc = "none"
    /\ Len(parsed.result.variables) = 2
    /\ parsed.result.variables[1].line = 1
    /\ parsed.result.variables[2].line = 2

\* the input of scenario 3
Scenario3 == <<"/","/"," ","T","O","D","O",":"," ","f","i","x"," ","t","h","i","s","\n","f","u","n","c","t","i","o","n"," ","f","(","x",")"," ","{"," ","r","e","t","u","r","n"," ","x",";"," ","}","\n">>
\* C18: for the input of scenario 3 detect_language returns "javascript", and
\* the result of parse_code with that tag has exactly one comment, at line 1,
\* exactly one function, named f, at line 2, and exactly one finding, of type
\* "todo".
C18_Scenario3 ==
    (op # "idle" /\ code_content = Scenario3) =>
        /\ detected = "javascript"
        /\ (op \in {"parse", "estimate"} /\ language = detected) =>
               /\ parsed.exc = "none"
               /\ Len(parsed.result.comments) = 1
               /\ parsed.result.comments[1].line = 1
               /\ Len(parsed.result.functions) = 1
               /\ parsed.result.functions[1].name = <<"f">>
               /\ parsed.result.functions[1].line = 2
               /\ Len(parsed.result.potential_issues) = 1
               /\ parsed.result.potential_issues[1].type = "todo"
\* scenario 3 parsed with the detected tag
C18_Witness ==
    /\ op = "parse"
    /\ code_content = Scenario3
    /\ language = "javascript"
    /\ detected = "javascript"
    /\ Len(parsed.result.comments) = 1
    /\ Len(parsed.result.functions) = 1
    /\ Len(parsed.result.potential_issues) = 1

\* the input of scenario 1
Scenario1 == <<"d","e","f"," ","f","o","o","(","a",","," ","b",")",":","\n"," "," "," "," ","r","e","t","u","r","n"," ","a"," ","+"," ","b","\n">>
\* C19: for the input of scenario 1 detect_language returns "python", the
\* result of parse_code with that tag has exactly one function, named foo, with
\* params "a, b", at line 1, and analyze_complexity reports
\* cyclomatic_complexity 1.
C19_Scenario1 ==
    (op # "idle" /\ code_content = Scenario1) =>
        /\ detected = "python"
        /\ (op \in {"parse", "estimate"} /\ language = detected) =>
               /\ parsed.exc = "none"
               /\ Len(parsed.result.functions) = 1
               /\ parsed.result.functions[1].name = <<"f","o","o">>
               /\ parsed.result.functions[1].params = <<"a",","," ","b">>
               /\ parsed.result.functions[1].line = 1
        /\ (op = "estimate" /\ language = detected) =>
               /\ complexity.exc = "none"
               /\ complexity.result.cyclomatic_complexity = 1
\* scenario 1 after the three calls
C19_Witness ==
    /\ op = "estimate"
    /\ code_content = Scenario1
    /\ language = "python"
    /\ detected = "python"
    /\ Len(parsed.result.functions) = 1
    /\ complexity.result.cyclomatic_complexity = 1

\* the width of the leading whitespace of a line that is not blank
Indent(line) == (CHOOSE i \in DOMAIN line :
                    line[i] \notin SpaceSet /\ \A j \in 1..(i - 1) : line[j] \in SpaceSet) - 1
\* the lines the nesting scan reads: not blank, and not starting (after their
\* leading whitespace) with the comment marker of the language
ScannedLines ==
    With(comment_marker_of(language_patterns, language), LAMBDA marker :
        SelectSeq(TextLines, LAMBDA line :
            /\ strip(line) # << >>
            /\ ~(Truthy(marker) /\ startswith(strip(line), marker.v))))
\* the fold of the claim over lines k.. of a list, returning max_depth
RECURSIVE DepthFold(_, _, _, _, _)
DepthFold(lines, k, prev_indent, current_depth, max_depth) ==
    IF k > Len(lines) THEN max_depth
    ELSE With(Indent(lines[k]), LAMBDA indent :
             With(IF indent > prev_indent THEN current_depth + 1
                  ELSE IF indent < prev_indent
                       THEN current_depth - Max(0, (prev_indent - indent) \div 2)
                       ELSE current_depth,
                  LAMBDA depth :
                      DepthFold(lines, k + 1, indent, depth, Max(max_depth, depth))))
\* C20: for a known tag, the nesting_depth analyze_complexity reports is the
\* max_depth of the fold over the lines that are neither blank nor comment
\* lines, starting from current_depth = prev_indent = max_depth = 0: a larger
\* indent adds 1, a smaller one subtracts max(0, (prev_indent - indent) div 2).
C20_NestingDepth ==
    (op = "estimate" /\ complexity.exc = "none" /\ language # "unknown") =>
        complexity.result.nesting_depth = DepthFold(ScannedLines, 1, 0, 0, 0)
\* a text whose indentation shrinks by 1 (no decrease of the depth) and grows
\* again, with depth 3 reported
C20_Witness ==
    /\ op = "estimate"
    /\ language \notin {"unknown", ""}
    /\ complexity.exc = "none"
    /\ complexity.result.nesting_depth = 3
    /\ \E k \in 1..(Len(ScannedLines) - 2) :
          /\ Indent(ScannedLines[k + 1]) = Indent(ScannedLines[k]) - 1
          /\ Indent(ScannedLines[k + 2]) > Indent(ScannedLines[k + 1])

\* whether analyze_complexity returned a report for the request
EstimateReturned == op = "estimate" /\ complexity.exc = "none"
\* the comment marker of the tag of the request
MarkerOfRequest == comment_marker_of(language_patterns, language)
\* whether line n of the text is blank, and whether it is a comment line
IsBlank(n) == strip(TextLines[n]) = << >>
IsCommentLine(n) ==
    /\ ~IsBlank(n)
    /\ Truthy(MarkerOfRequest)
    /\ startswith(strip(TextLines[n]), MarkerOfRequest.v)

\* C21: every report of analyze_complexity has nesting_depth >= 0 and a
\* comment_ratio comment_count / line_count with 0 <= comment_count <=
\* line_count, that is a ratio in [0, 1]; for a known tag comment_count is the
\* number of comment entries of the parse result.
C21_DepthAndRatioInRange ==
    EstimateReturned =>
        /\ complexity.result.nesting_depth >= 0
        /\ complexity.result.comment_ratio.den > 0
        /\ complexity.result.comment_ratio.num >= 0
        /\ complexity.result.comment_ratio.num <= complexity.result.comment_ratio.den
        /\ language # "unknown" =>
              /\ complexity.result.comment_ratio.num = Len(parsed.result.comments)
              /\ complexity.result.comment_ratio.den = complexity.result.line_count
\* a text with a comment line on which current_depth ends below 0
C21_Witness ==
    /\ EstimateReturned
    /\ language \notin {"unknown", ""}
    /\ complexity.result.comment_ratio.num > 0
    /\ complexity.result.nesting_depth > 0
    /\ \E k \in DOMAIN depth_trace(TextLines, 1, MarkerOfRequest, 0, 0) :
          depth_trace(TextLines, 1, MarkerOfRequest, 0, 0)[k] < 0

\* the decision list the claim gives a tag: keywords, then operators
DecisionKeywords(tag) ==
    IF tag = "python" THEN <<<<"i","f">>, <<"e","l","i","f">>, <<"f","o","r">>, <<"w","h","i","l","e">>, <<"e","x","c","e","p","t">>, <<"a","n","d">>, <<"o","r">>>>
    ELSE IF tag = "c" THEN <<<<"i","f">>, <<"e","l","s","e"," ","i","f">>, <<"f","o","r">>, <<"w","h","i","l","e">>, <<"c","a","s","e">>>>
    ELSE IF tag = "go" THEN <<<<"i","f">>, <<"e","l","s","e"," ","i","f">>, <<"f","o","r">>, <<"s","w","i","t","c","h">>, <<"c","a","s","e">>>>
    ELSE <<<<"i","f">>, <<"e","l","s","e"," ","i","f">>, <<"f","o","r">>, <<"w","h","i","l","e">>, <<"c","a","s","e">>, <<"c","a","t","c","h">>>>
DecisionOperators(tag) == IF tag = "python" THEN << >> ELSE <<<<"&","&">>, <<"|","|">>>>
\* the number of matches of \bword\b in the text, summed over a list of words
RECURSIVE WholeWordMatches(_, _)
WholeWordMatches(words, k) ==
    IF k > Len(words) THEN 0
    ELSE Len(re_finditer(WholeWord(words[k]), code_content)) + WholeWordMatches(words, k + 1)

\* C22: for a known tag, cyclomatic_complexity is 1 plus, for every pattern of
\* the decision list of the tag, the number of matches of the pattern in the
\* text; a tag other than python, javascript, java, c, cpp, go has the
\* javascript list.
C22_ComplexityIsMatchCount ==
    (EstimateReturned /\ language # "unknown") =>
        complexity.result.cyclomatic_complexity =
            1 + WholeWordMatches(DecisionKeywords(language), 1)
              + WholeWordMatches(DecisionOperators(language), 1)
\* a tag without a list of its own, on a text with several matches
C22_Witness ==
    /\ EstimateReturned
    /\ language \notin {"unknown", "", "python", "javascript", "java", "c", "cpp", "go"}
    /\ complexity.result.cyclomatic_complexity = 5

BraceFamily == {"javascript", "java", "c", "cpp", "go"}
\* C23: for javascript, java, c, cpp and go, every occurrence of && and of || in
\* the text adds 1 to cyclomatic_complexity, `a && b` with its spaces included.
C23_LogicalOperatorsCounted ==
    (EstimateReturned /\ language \in BraceFamily) =>
        complexity.result.cyclomatic_complexity =
            1 + WholeWordMatches(DecisionKeywords(language), 1)
              + count(code_content, <<"&","&">>) + count(code_content, <<"|","|">>)

\* C24: for a known tag with a comment marker, a blank line has no entry in any
\* list of the parse result, and a line that is not blank and whose stripped
\* text starts with the marker has exactly one comment entry and no entry in
\* functions, classes, imports or variables.
C24_BlankAndCommentLines ==
    (ParseReturned /\ language # "unknown" /\ Truthy(MarkerOfRequest)) =>
        \A n \in DOMAIN TextLines :
            /\ IsBlank(n) =>
                  n \notin (EntityLines \cup LinesOf(parsed.result.comments)
                            \cup LinesOf(parsed.result.potential_issues))
            /\ IsCommentLine(n) =>
                  /\ Cardinality({k \in DOMAIN parsed.result.comments :
                                     parsed.result.comments[k].line = n}) = 1
                  /\ n \notin EntityLines
\* javascript source: a blank line, then an indented comment line that the
\* variable pattern matches
C24_Witness ==
    /\ op = "parse"
    /\ language = "javascript"
    /\ parsed.exc = "none"
    /\ Len(TextLines) = 2
    /\ IsBlank(1)
    /\ IsCommentLine(2)
    /\ TextLines[2] # strip(TextLines[2])
    /\ re_search(js_var_re, TextLines[2]).ok

Classified == {"python", "javascript", "typescript", "java", "c", "cpp", "go"}
\* C25: for a registered tag other than python, javascript, java, c, cpp, go,
\* the parse result has empty functions, classes, imports and variables, its
\* comments are the comment lines of the text, in order, and line_count is set.
C25_NoClassifierNoEntities ==
    (ParseReturned /\ language \in TagSet(language_patterns) \ Classified) =>
        /\ parsed.result.functions = << >>
        /\ parsed.result.classes = << >>
        /\ parsed.result.imports = << >>
        /\ parsed.result.variables = << >>
        /\ parsed.result.line_count = Newlines + 1
        /\ LinesOf(parsed.result.comments) = {n \in DOMAIN TextLines : IsCommentLine(n)}
        /\ Len(parsed.result.comments) = Cardinality(LinesOf(parsed.result.comments))
\* a tag without classifier whose marker is //, on a comment line followed by
\* a javascript function
C25_Witness ==
    /\ op = "parse"
    /\ language = "csharp"
    /\ parsed.exc = "none"
    /\ Len(parsed.result.comments) = 1
    /\ \E n \in DOMAIN TextLines : re_search(js_func_re, TextLines[n]).ok

\* the types of the findings of the parse result
FindingTypes == {parsed.result.potential_issues[k].type : k \in DOMAIN parsed.result.potential_issues}
\* C26: findings of type "bug" only for the tag python, of type "debug" only
\* for javascript and typescript, of type "style" only for these three; for
\* every other known tag the findings are those of the todo rule followed by
\* those of the credential rule, and nothing else.
C26_RulesOfOwnLanguageOnly ==
    (ParseReturned /\ language # "unknown") =>
        /\ "bug" \in FindingTypes => language = "python"
        /\ "debug" \in FindingTypes => language \in JsFamily
        /\ "style" \in FindingTypes => language \in JsFamily \cup {"python"}
        /\ language \notin JsFamily \cup {"python"} =>
              /\ FindingTypes \subseteq {"todo", "security"}
              /\ Len(parsed.result.potential_issues)
                     = Len(RuleMatches("todo")) + Len(RuleMatches("security"))
\* a tag with no rules of its own, on a text that the bare-except, the
\* mutable-default, the console-log and the loose-equality pattern all match
C26_Witness ==
    /\ op = "parse"
    /\ language = "c"
    /\ parsed.exc = "none"
    /\ parsed.result.potential_issues = << >>
    /\ re_finditer(bare_except_re, code_content) # << >>
    /\ re_finditer(mutable_default_re, code_content) # << >>
    /\ re_finditer(console_log_re, code_content) # << >>
    /\ re_finditer(loose_equals_re, code_content) # << >>

\* C27: in javascript source, a line that is not a comment and holds a single =
\* sign (a plain assignment such as `x = 1`) gets no finding of type "style".
C27_PlainAssignmentNotFlagged ==
    (ParseReturned /\ language \in JsFamily) =>
        \A n \in DOMAIN TextLines :
            (/\ count(TextLines[n], <<"=">>) = 1
             /\ ~startswith(strip(TextLines[n]), <<"/","/">>)) =>
                \A k \in DOMAIN parsed.result.potential_issues :
                    ~(/\ parsed.result.potential_issues[k].type = "style"
                      /\ parsed.result.potential_issues[k].line = n)

\* the values of current_depth during the nesting scan of the request
DepthTrace == depth_trace(TextLines, 1, MarkerOfRequest, 0, 0)
\* C28: during the nesting scan of analyze_complexity, current_depth is not
\* negative after any line.
C28_DepthNeverNegative ==
    (EstimateReturned /\ language # "unknown") =>
        \A k \in DOMAIN DepthTrace : DepthTrace[k] >= 0

\* the indentation widths of the lines the nesting scan reads
IndentWidths == {Indent(ScannedLines[k]) : k \in DOMAIN ScannedLines}
\* C29: the nesting_depth reported is at most the number of distinct
\* indentation widths of the scanned lines, minus 1; with two widths it is at
\* most 1.
C29_DepthBoundedByWidths ==
    (EstimateReturned /\ language # "unknown" /\ ScannedLines # << >>) =>
        complexity.result.nesting_depth <= Cardinality(IndentWidths) - 1

\* C30: a language that detect_language returns through scoring (no marker on
\* the first line) has at least one keyword of its registry entry in the text.
C30_KeywordOfDetectedOccurs ==
    (op = "detect" /\ ~HasMarker /\ detected # "unknown") =>
        \E e \in DOMAIN language_patterns :
            /\ language_patterns[e].lang = detected
            /\ \E k \in DOMAIN language_patterns[e].keywords :
                  Contains(code_content, language_patterns[e].keywords[k])

====
